---- MODULE Spec2Model ----
(***************************************************************************)
(* A model of vcf-filter: the header metadata resolver (header.rs), the    *)
(* row decoder (row.rs), the expression parser (filter.rs), the evaluator  *)
(* (eval.rs) and the FilterEngine facade (lib.rs).                         *)
(*                                                                         *)
(* Text is a sequence of one-character strings, so that splitting,         *)
(* trimming, number parsing and substring search are computed the way the  *)
(* code computes them.  An f64 is an integer count of tenths (30.5 is 305):*)
(* the texts of the model carry at most one fractional digit, and on such  *)
(* values the tolerance test |l - r| < f64::EPSILON is exact equality.     *)
(***************************************************************************)
EXTENDS Integers, Sequences, FiniteSets, TLC

VARIABLES engine, line, row, expr, result, args, ret

vars == <<engine, line, row, expr, result, args, ret>>

(***************************************************************************)
(* Text helpers (str::split, str::find, str::trim, str::contains, ...).    *)
(***************************************************************************)
TAB == "\t"

DigitChars == <<"0", "1", "2", "3", "4", "5", "6", "7", "8", "9">>

IsDigit(c) == \E i \in 1..10 : DigitChars[i] = c

DigitVal(c) == (CHOOSE i \in 1..10 : DigitChars[i] = c) - 1

IsWhite(c) == c \in {" ", TAB, "\n", "\r"}

\* The characters of the model's texts in ASCII order (for str's Ord).
CharOrder ==
    <<TAB, "\n", "\r", " ", "!", "\"", "#", "&", "'", "(", ")", "*", "+", ",",
      "-", ".", "/", "0", "1", "2", "3", "4", "5", "6", "7", "8", "9", ":",
      ";", "<", "=", ">", "A", "B", "C", "D", "E", "F", "G", "H", "I", "L",
      "M", "N", "O", "P", "Q", "R", "S", "T", "U", "X", "[", "]", "_", "a",
      "b", "c", "d", "e", "f", "i", "l", "n", "o", "p", "q", "r", "s", "t",
      "u", "x", "y", "|">>

Ord(c) == CHOOSE i \in 1..Len(CharOrder) : CharOrder[i] = c

\* Index of the first occurrence of character c in s, 0 when there is none.
Find(s, c) ==
    IF \E i \in 1..Len(s) : s[i] = c
    THEN CHOOSE i \in 1..Len(s) : s[i] = c /\ \A j \in 1..(i - 1) : s[j] # c
    ELSE 0

ContainsChar(s, c) == Find(s, c) # 0

Drop(s, n) == SubSeq(s, n + 1, Len(s))

Take(s, n) == SubSeq(s, 1, n)

RECURSIVE Split(_, _)
Split(s, c) ==
    LET p == Find(s, c)
    IN  IF p = 0 THEN <<s>>
        ELSE <<Take(s, p - 1)>> \o Split(Drop(s, p), c)

StartsWith(s, p) == Len(p) <= Len(s) /\ Take(s, Len(p)) = p

EndsWith(s, p) == Len(p) <= Len(s) /\ Drop(s, Len(s) - Len(p)) = p

\* str::contains(pattern): l holds r as a contiguous substring.
StrContains(l, r) ==
    \E i \in 0..(Len(l) - Len(r)) : SubSeq(l, i + 1, i + Len(r)) = r

RECURSIVE TrimStart(_)
TrimStart(s) ==
    IF s # <<>> /\ IsWhite(s[1]) THEN TrimStart(Tail(s)) ELSE s

RECURSIVE TrimEnd(_)
TrimEnd(s) ==
    IF s # <<>> /\ IsWhite(s[Len(s)]) THEN TrimEnd(Take(s, Len(s) - 1)) ELSE s

Trim(s) == TrimEnd(TrimStart(s))

\* str::replace(from, to) for one character.
ReplaceChar(s, from, to) ==
    [i \in 1..Len(s) |-> IF s[i] = from THEN to ELSE s[i]]

\* Lexicographic order of str (byte-wise): l < r.
RECURSIVE StrLess(_, _)
StrLess(l, r) ==
    IF r = <<>> THEN FALSE
    ELSE IF l = <<>> THEN TRUE
    ELSE IF l[1] = r[1] THEN StrLess(Tail(l), Tail(r))
    ELSE Ord(l[1]) < Ord(r[1])

(***************************************************************************)
(* Number parsing (str::parse::<u64 | usize | i64 | f64>).                 *)
(***************************************************************************)
AllDigits(s) == s # <<>> /\ \A i \in 1..Len(s) : IsDigit(s[i])

RECURSIVE DigitsValue(_)
DigitsValue(s) ==
    IF s = <<>> THEN 0
    ELSE DigitsValue(Take(s, Len(s) - 1)) * 10 + DigitVal(s[Len(s)])

RECURSIVE StripZeros(_)
StripZeros(s) ==
    IF Len(s) > 1 /\ s[1] = "0" THEN StripZeros(Tail(s)) ELSE s

\* u64::MAX = usize::MAX = 18446744073709551615 on the 64-bit target.
U64MaxText ==
    <<"1", "8", "4", "4", "6", "7", "4", "4", "0", "7", "3", "7", "0", "9",
      "5", "5", "1", "6", "1", "5">>

\* A digit string whose value does not exceed u64::MAX (no overflow).
FitsU64(s) ==
    LET z == StripZeros(s)
    IN  \/ Len(z) < Len(U64MaxText)
        \/ Len(z) = Len(U64MaxText) /\ ~StrLess(U64MaxText, z)

\* The texts that fit are small enough for TLC's integers.
ParseU64(s) ==
    LET d == IF s # <<>> /\ s[1] = "+" THEN Tail(s) ELSE s
    IN  IF AllDigits(d) /\ FitsU64(d)
        THEN [ok |-> TRUE, v |-> DigitsValue(d)]
        ELSE [ok |-> FALSE]

ParseI64(s) ==
    LET neg == s # <<>> /\ s[1] = "-"
        d == IF s # <<>> /\ s[1] \in {"+", "-"} THEN Tail(s) ELSE s
    IN  IF AllDigits(d)
        THEN [ok |-> TRUE, v |-> IF neg THEN 0 - DigitsValue(d) ELSE DigitsValue(d)]
        ELSE [ok |-> FALSE]

\* f64 in tenths: [sign] digits [. digits], at least one digit in all.
ParseF64(s) ==
    LET neg == s # <<>> /\ s[1] = "-"
        d == IF s # <<>> /\ s[1] \in {"+", "-"} THEN Tail(s) ELSE s
        p == Find(d, ".")
        ip == IF p = 0 THEN d ELSE Take(d, p - 1)
        fp == IF p = 0 THEN <<>> ELSE Drop(d, p)
        digitsOnly(t) == \A i \in 1..Len(t) : IsDigit(t[i])
        mag == DigitsValue(ip) * 10 + (IF fp = <<>> THEN 0 ELSE DigitVal(fp[1]))
    IN  IF digitsOnly(ip) /\ digitsOnly(fp) /\ Len(ip) + Len(fp) > 0
        THEN [ok |-> TRUE, v |-> IF neg THEN 0 - mag ELSE mag]
        ELSE [ok |-> FALSE]

\* u64 / i64 as f64.
AsF64(n) == n * 10

(***************************************************************************)
(* value.rs: Value                                                         *)
(***************************************************************************)
VString(s) == [k |-> "string", s |-> s]
VNumber(n) == [k |-> "number", n |-> n]
VBool(b) == [k |-> "bool", b |-> b]
VArray(a) == [k |-> "array", a |-> a]
VMissing == [k |-> "missing"]

is_missing_never(v) == FALSE

is_missing(v) == v.k = "missing"

\* Option<bool>
\* as_bool that takes a Number other than zero for true
as_bool_nonzero(v) ==
    CASE v.k = "bool" -> [some |-> TRUE, v |-> v.b]
      [] v.k = "missing" -> [some |-> TRUE, v |-> FALSE]
      [] v.k = "number" -> [some |-> TRUE, v |-> v.n # 0]
      [] OTHER -> [some |-> FALSE]

as_bool(v) ==
    CASE v.k = "bool" -> [some |-> TRUE, v |-> v.b]
      [] v.k = "missing" -> [some |-> TRUE, v |-> FALSE]
      [] OTHER -> [some |-> FALSE]

\* Option<f64>
as_number(v) ==
    CASE v.k = "number" -> [some |-> TRUE, v |-> v.n]
      [] v.k = "string" ->
            LET r == ParseF64(v.s)
            IN  IF r.ok THEN [some |-> TRUE, v |-> r.v] ELSE [some |-> FALSE]
      [] OTHER -> [some |-> FALSE]

type_name(v) == v.k

(***************************************************************************)
(* error.rs: Result<T>                                                     *)
(***************************************************************************)
Ok(v) == [ok |-> TRUE, v |-> v]
Err(kind) == [ok |-> FALSE, err |-> kind]
\* TypeMismatch with the two type names exchanged
TypeMismatchSwapped(l, r) ==
    [ok |-> FALSE, err |-> "TypeMismatch", left |-> r, right |-> l]

TypeMismatch(l, r) == [ok |-> FALSE, err |-> "TypeMismatch", left |-> l, right |-> r]

(***************************************************************************)
(* header.rs: InfoNumber, InfoField.  InfoMap is a function id -> InfoField.*)
(***************************************************************************)
Count(n) == [n |-> "Count", c |-> n]
PerAltAllele == [n |-> "PerAltAllele"]
PerGenotype == [n |-> "PerGenotype"]
PerAllele == [n |-> "PerAllele"]
Variable == [n |-> "Variable"]
Flag == [n |-> "Flag"]

None == [some |-> FALSE]
Some(v) == [some |-> TRUE, v |-> v]

\* HashMap::insert and HashMap::get
EmptyMap == [x \in {} |-> x]
Insert(m, key, val) == (key :> val) @@ m
Has(m, key) == key \in DOMAIN m

\* Vec::iter().position(|s| s == x): the first index (0-based), or None.
Position(names, x) ==
    IF \E i \in 1..Len(names) : names[i] = x
    THEN Some((CHOOSE i \in 1..Len(names) :
                  names[i] = x /\ \A j \in 1..(i - 1) : names[j] # x) - 1)
    ELSE None

(***************************************************************************)
(* header.rs: the metadata resolver.                                       *)
(***************************************************************************)
parse_number(s) ==
    CASE s = <<"A">> -> PerAltAllele
      [] s = <<"G">> -> PerGenotype
      [] s = <<"R">> -> PerAllele
      [] s = <<".">> -> Variable
      [] s = <<"0">> -> Flag
      [] OTHER -> LET n == ParseU64(s) IN Count(IF n.ok THEN n.v ELSE 1)

parse_type(s) ==
    CASE s = <<"I", "n", "t", "e", "g", "e", "r">> -> "Integer"
      [] s = <<"F", "l", "o", "a", "t">> -> "Float"
      [] s = <<"F", "l", "a", "g">> -> "Flag"
      [] s = <<"C", "h", "a", "r", "a", "c", "t", "e", "r">> -> "Character"
      [] OTHER -> "String"

\* The key = value pairs between the angle brackets, as a map.
RECURSIVE AttrsFrom(_, _)
AttrsFrom(attrs, remaining) ==
    LET eq_pos == Find(remaining, "=")
        key == Trim(Take(remaining, eq_pos - 1))
        rest == Drop(remaining, eq_pos)
        quoted == Tail(rest)
        q == Find(quoted, "\"")
        end_quote == IF q = 0 THEN Len(quoted) ELSE q - 1
        afterQuote == Drop(quoted, IF end_quote + 1 < Len(quoted)
                                   THEN end_quote + 1 ELSE Len(quoted))
        c == Find(rest, ",")
        comma_pos == IF c = 0 THEN Len(rest) ELSE c - 1
    IN  IF remaining = <<>> \/ eq_pos = 0 THEN attrs
        ELSE IF rest # <<>> /\ rest[1] = "\""
        THEN AttrsFrom(Insert(attrs, key, Take(quoted, end_quote)),
                       IF afterQuote # <<>> /\ afterQuote[1] = ","
                       THEN Tail(afterQuote) ELSE afterQuote)
        ELSE AttrsFrom(Insert(attrs, key, Take(rest, comma_pos)),
                       IF c = 0 THEN <<>> ELSE Drop(rest, c))

parse_info_attrs(content) == AttrsFrom(EmptyMap, content)

\* trim, then ' ', '.', '/' -> '_'
NormaliseSubfield(s) ==
    ReplaceChar(ReplaceChar(ReplaceChar(Trim(s), " ", "_"), ".", "_"), "/", "_")

RECURSIVE NonEmpty(_)
NonEmpty(ss) ==
    IF ss = <<>> THEN <<>>
    ELSE (IF Head(ss) = <<>> THEN <<>> ELSE <<Head(ss)>>) \o NonEmpty(Tail(ss))

\* Option<Vec<String>>, keeping the segments that are empty.
extract_subfields_keep_empty(description) ==
    LET start == Find(description, "'")
        after == Drop(description, start)
        end == Find(after, "'")
        format_str == Take(after, end - 1)
        segs == Split(format_str, "|")
    IN  IF start = 0 \/ end = 0 \/ ~ContainsChar(format_str, "|") THEN None
        ELSE Some([i \in 1..Len(segs) |-> NormaliseSubfield(segs[i])])

\* Option<Vec<String>>
extract_subfields(description) ==
    LET start == Find(description, "'")
        after == Drop(description, start)
        end == Find(after, "'")
        format_str == Take(after, end - 1)
        segs == Split(format_str, "|")
        subfields == NonEmpty([i \in 1..Len(segs) |-> NormaliseSubfield(segs[i])])
    IN  IF start = 0 THEN None
        ELSE IF end = 0 THEN None
        ELSE IF ~ContainsChar(format_str, "|") THEN None
        ELSE IF Len(subfields) >= 2 THEN Some(subfields)
        ELSE None

InfoPrefix == <<"#", "#", "I", "N", "F", "O", "=", "<">>
K_ID == <<"I", "D">>
K_Number == <<"N", "u", "m", "b", "e", "r">>
K_Type == <<"T", "y", "p", "e">>
K_Description == <<"D", "e", "s", "c", "r", "i", "p", "t", "i", "o", "n">>

\* Option<InfoField>
parse_info_line(text) ==
    LET inner == Take(Drop(text, Len(InfoPrefix)), Len(text) - Len(InfoPrefix) - 1)
        attrs == parse_info_attrs(inner)
        description == IF Has(attrs, K_Description) THEN attrs[K_Description]
                       ELSE <<>>
    IN  IF ~StartsWith(text, InfoPrefix) THEN None
        ELSE IF ~EndsWith(Drop(text, Len(InfoPrefix)), <<">">>) THEN None
        ELSE IF ~Has(attrs, K_ID) \/ ~Has(attrs, K_Number) \/ ~Has(attrs, K_Type)
        THEN None
        ELSE Some([id |-> attrs[K_ID],
                   number |-> parse_number(attrs[K_Number]),
                   field_type |-> parse_type(attrs[K_Type]),
                   description |-> description,
                   subfields |-> extract_subfields(description)])

\* str::lines: split on "\n", no final empty line, a trailing "\r" removed.
Lines(text) ==
    LET raw == Split(text, "\n")
        kept == IF raw[Len(raw)] = <<>> THEN Take(raw, Len(raw) - 1) ELSE raw
    IN  [i \in 1..Len(kept) |->
            IF kept[i] # <<>> /\ kept[i][Len(kept[i])] = "\r"
            THEN Take(kept[i], Len(kept[i]) - 1) ELSE kept[i]]

RECURSIVE HeaderEntries(_, _)
HeaderEntries(info_map, ls) ==
    IF ls = <<>> THEN info_map
    ELSE LET l == Trim(Head(ls))
             field == parse_info_line(l)
         IN  HeaderEntries(IF StartsWith(l, InfoPrefix) /\ field.some
                           THEN Insert(info_map, field.v.id, field.v)
                           ELSE info_map,
                           Tail(ls))

\* parse_header with an error for a declaration line that is not resolved
parse_header_strict(header) ==
    IF \E i \in 1..Len(Lines(header)) :
            /\ StartsWith(Trim(Lines(header)[i]), InfoPrefix)
            /\ ~parse_info_line(Trim(Lines(header)[i])).some
    THEN Err("HeaderParseError")
    ELSE Ok(HeaderEntries(EmptyMap, Lines(header)))

\* Result<InfoMap>: never an error.
parse_header(header) == Ok(HeaderEntries(EmptyMap, Lines(header)))

(***************************************************************************)
(* row.rs: VcfRow::get and the annotation accessors.                       *)
(***************************************************************************)
N_CHROM == <<"C", "H", "R", "O", "M">>
N_POS == <<"P", "O", "S">>
N_ID == <<"I", "D">>
N_REF == <<"R", "E", "F">>
N_ALT == <<"A", "L", "T">>
N_QUAL == <<"Q", "U", "A", "L">>
N_FILTER == <<"F", "I", "L", "T", "E", "R">>
N_INFO == <<"I", "N", "F", "O">>
N_FORMAT == <<"F", "O", "R", "M", "A", "T">>

Strings(ss) == [i \in 1..Len(ss) |-> VString(ss[i])]

\* ALT and FILTER always as an Array.
CollapseNever(ss) == VArray(Strings(ss))

\* ALT and FILTER as the bare String of the first element
CollapseToFirst(ss) ==
    IF Len(ss) >= 1 THEN VString(ss[1]) ELSE VArray(Strings(ss))

\* ALT and FILTER: a bare String for exactly one element, else an Array.
Collapse(ss) ==
    IF Len(ss) = 1 THEN VString(ss[1]) ELSE VArray(Strings(ss))

\* get with the FORMAT map consulted before the INFO map.
get_format_first(r, field) ==
    CASE field = N_CHROM -> VString(r.chrom)
      [] field = N_POS -> VNumber(AsF64(r.pos))
      [] field = N_ID -> IF r.id.some THEN VString(r.id.v) ELSE VMissing
      [] field = N_REF -> VString(r.ref_allele)
      [] field = N_ALT -> Collapse(r.alt_alleles)
      [] field = N_QUAL -> IF r.qual.some THEN VNumber(r.qual.v) ELSE VMissing
      [] field = N_FILTER -> Collapse(r.filter)
      [] OTHER ->
            IF Has(r.format, field) THEN r.format[field]
            ELSE IF Has(r.info, field) THEN r.info[field]
            ELSE VMissing

get(r, field) ==
    CASE field = N_CHROM -> VString(r.chrom)
      [] field = N_POS -> VNumber(AsF64(r.pos))
      [] field = N_ID -> IF r.id.some THEN VString(r.id.v) ELSE VMissing
      [] field = N_REF -> VString(r.ref_allele)
      [] field = N_ALT -> Collapse(r.alt_alleles)
      [] field = N_QUAL -> IF r.qual.some THEN VNumber(r.qual.v) ELSE VMissing
      [] field = N_FILTER -> Collapse(r.filter)
      [] OTHER ->
            IF Has(r.info, field) THEN r.info[field]
            ELSE IF Has(r.format, field) THEN r.format[field]
            ELSE VMissing

get_annotation_subfield(r, field, index, subfield, info_map) ==
    IF ~Has(info_map, field) THEN VMissing
    ELSE IF ~info_map[field].subfields.some THEN VMissing
    ELSE LET sub == Position(info_map[field].subfields.v, subfield)
         IN  IF ~sub.some THEN VMissing
             ELSE IF ~(Has(r.info, field) /\ r.info[field].k = "array") THEN VMissing
             ELSE LET anns == r.info[field].a
                  IN  IF ~(index < Len(anns) /\ anns[index + 1].k = "array")
                      THEN VMissing
                      ELSE LET ann == anns[index + 1].a
                           IN  IF sub.v < Len(ann) THEN ann[sub.v + 1]
                               ELSE VMissing

\* The wildcard collection stopping after the first annotation instance.
SubfieldsOfFirst(anns, idx) ==
    IF anns = <<>> THEN <<>>
    ELSE LET h == Head(anns)
         IN  IF h.k = "array" /\ idx < Len(h.a) THEN <<h.a[idx + 1]>> ELSE <<>>

\* filter_map over a sequence: keep f-selected elements in order.
RECURSIVE SubfieldsOf(_, _)
SubfieldsOf(anns, idx) ==
    IF anns = <<>> THEN <<>>
    ELSE LET h == Head(anns)
             here == IF h.k = "array" /\ idx < Len(h.a)
                     THEN <<h.a[idx + 1]>> ELSE <<>>
         IN  here \o SubfieldsOf(Tail(anns), idx)

get_all_annotation_subfields(r, field, subfield, info_map) ==
    IF ~Has(info_map, field) THEN <<>>
    ELSE IF ~info_map[field].subfields.some THEN <<>>
    ELSE LET sub == Position(info_map[field].subfields.v, subfield)
         IN  IF ~sub.some THEN <<>>
             ELSE IF ~(Has(r.info, field) /\ r.info[field].k = "array") THEN <<>>
             ELSE SubfieldsOf(r.info[field].a, sub.v)

(***************************************************************************)
(* row.rs: the decoder.                                                    *)
(***************************************************************************)
\* The value the per-instance HashMap holds for a name: the segment at the
\* last schema position carrying that name for which the instance has a
\* segment (a later insert overwrites an earlier one), or Missing.
AnnotationValue(subfield_names, parts, name) ==
    LET hits == {j \in 1..Len(subfield_names) :
                    subfield_names[j] = name /\ j <= Len(parts)}
    IN  IF hits = {} THEN VMissing
        ELSE VString(parts[CHOOSE j \in hits : \A h \in hits : h <= j])

DecodeAnnotation(ann, subfield_names) ==
    LET parts == Split(ann, "|")
    IN  VArray([i \in 1..Len(subfield_names) |->
                    AnnotationValue(subfield_names, parts, subfield_names[i])])

IntOrString(t) ==
    LET n == ParseI64(t)
    IN  IF n.ok THEN VNumber(AsF64(n.v)) ELSE VString(t)

FloatOrString(t) ==
    LET n == ParseF64(t)
    IN  IF n.ok THEN VNumber(n.v) ELSE VString(t)

\* A one-element Vec collapses to its element.
Single(values) ==
    IF Len(values) = 1 THEN values[1] ELSE VArray(values)

parse_info_value(raw, field) ==
    IF field.subfields.some
    THEN LET anns == Split(raw, ",")
         IN  VArray([i \in 1..Len(anns) |->
                        DecodeAnnotation(anns[i], field.subfields.v)])
    ELSE CASE field.number = Count(1) /\ field.field_type = "Integer" ->
                 IntOrString(raw)
           [] field.number = Count(1) /\ field.field_type = "Float" ->
                 FloatOrString(raw)
           [] field.number = Flag -> VBool(TRUE)
           [] field.field_type = "Integer" ->
                 LET ps == Split(raw, ",")
                 IN  Single([i \in 1..Len(ps) |-> IntOrString(ps[i])])
           [] field.field_type = "Float" ->
                 LET ps == Split(raw, ",")
                 IN  Single([i \in 1..Len(ps) |-> FloatOrString(ps[i])])
           [] OTHER ->
                 IF ContainsChar(raw, ",") /\ ~ContainsChar(raw, "|")
                 THEN VArray(Strings(Split(raw, ",")))
                 ELSE VString(raw)

parse_info_value_unknown(raw) ==
    LET n == ParseF64(raw)
    IN  IF n.ok THEN VNumber(n.v)
        ELSE IF ContainsChar(raw, ",") /\ ~ContainsChar(raw, "|")
        THEN VArray(Strings(Split(raw, ",")))
        ELSE VString(raw)

\* One entry of the INFO column inserted into the map built so far.
InfoEntry(m, field, info_map) ==
    LET eq == Find(field, "=")
        key == Take(field, eq - 1)
        value == Drop(field, eq)
    IN  IF field = <<>> THEN m
        ELSE IF eq = 0 THEN Insert(m, field, VBool(TRUE))
        ELSE IF Has(info_map, key)
        THEN Insert(m, key, parse_info_value(value, info_map[key]))
        ELSE Insert(m, key, parse_info_value_unknown(value))

RECURSIVE InfoEntries(_, _, _)
InfoEntries(m, fields, info_map) ==
    IF fields = <<>> THEN m
    ELSE InfoEntries(InfoEntry(m, Head(fields), info_map), Tail(fields), info_map)

parse_info_column(info_str, info_map) ==
    IF info_str = <<".">> THEN EmptyMap
    ELSE InfoEntries(EmptyMap, Split(info_str, ";"), info_map)

RECURSIVE FormatEntries(_, _, _, _)
FormatEntries(m, format_keys, sample_values, i) ==
    IF i > Len(format_keys) THEN m
    ELSE IF i > Len(sample_values)
    THEN FormatEntries(m, format_keys, sample_values, i + 1)
    ELSE FormatEntries(
            Insert(m, format_keys[i],
                   IF sample_values[i] = <<".">> THEN VMissing
                   ELSE VString(sample_values[i])),
            format_keys, sample_values, i + 1)

\* parse_format_columns keeping every key, a key without value as Missing
parse_format_columns_all_keys(format_str, sample_str) ==
    LET ks == Split(format_str, ":")
        vs == Split(sample_str, ":")
        at(k) == CHOOSE i \in 1..Len(ks) :
                    ks[i] = k /\ \A j \in (i + 1)..Len(ks) : ks[j] # k
    IN  [k \in {ks[i] : i \in 1..Len(ks)} |->
            IF at(k) > Len(vs) \/ vs[at(k)] = <<".">> THEN VMissing
            ELSE VString(vs[at(k)])]

parse_format_columns(format_str, sample_str) ==
    FormatEntries(EmptyMap, Split(format_str, ":"), Split(sample_str, ":"), 1)

\* The least number of columns a data row must have.
MinColumns == 8

\* The column-count error naming the required count instead of the actual one.
ColumnCountErrorExpected(got) ==
    [ok |-> FALSE, err |-> "RowParseError", what |-> "columns", got |-> MinColumns]

\* "Expected at least 8 columns, got {n}" and "Invalid POS: {e}".
ColumnCountError(got) ==
    [ok |-> FALSE, err |-> "RowParseError", what |-> "columns", got |-> got]
InvalidPosError == [ok |-> FALSE, err |-> "RowParseError", what |-> "POS"]

\* Result<VcfRow>
parse_row(text, info_map) ==
    LET fields == Split(text, TAB)
        pos == ParseU64(fields[2])
        qual == ParseF64(fields[6])
    IN  IF Len(fields) < MinColumns THEN ColumnCountError(Len(fields))
        ELSE IF ~pos.ok THEN InvalidPosError
        ELSE Ok([chrom |-> fields[1],
                 pos |-> pos.v,
                 id |-> IF fields[3] = <<".">> THEN None ELSE Some(fields[3]),
                 ref_allele |-> fields[4],
                 alt_alleles |-> IF fields[5] = <<".">> THEN <<>>
                                 ELSE Split(fields[5], ","),
                 qual |-> IF fields[6] = <<".">> \/ ~qual.ok THEN None
                          ELSE Some(qual.v),
                 filter |-> IF fields[7] = <<".">> THEN <<>>
                            ELSE Split(fields[7], ";"),
                 info |-> parse_info_column(fields[8], info_map),
                 format |-> IF Len(fields) >= 10
                            THEN parse_format_columns(fields[9], fields[10])
                            ELSE EmptyMap])

(***************************************************************************)
(* filter.rs: the AST.                                                     *)
(***************************************************************************)
Field(name) == [p |-> "Field", name |-> name]
Index(i) == [p |-> "Index", i |-> i]
Wildcard == [p |-> "Wildcard"]

ENumber(n) == [t |-> "Number", n |-> n]
EString(s) == [t |-> "String", s |-> s]
EBool(b) == [t |-> "Bool", b |-> b]
EVar(parts) == [t |-> "Var", parts |-> parts]
EBinary(l, op, r) == [t |-> "Binary", left |-> l, op |-> op, right |-> r]
EUnary(op, e) == [t |-> "Unary", op |-> op, inner |-> e]
EExists(parts) == [t |-> "Exists", parts |-> parts]

CmpOps == {"Eq", "NotEq", "Lt", "Gt", "LtEq", "GtEq", "Contains"}
OrderOps == {"Lt", "Gt", "LtEq", "GtEq"}
BinaryOps == CmpOps \cup {"And", "Or"}

(***************************************************************************)
(* eval.rs                                                                 *)
(***************************************************************************)
\* Equality of the two values as they are, without any coercion
values_equal_strict(l, r) == l = r

values_equal(l, r) ==
    CASE l.k = "string" /\ r.k = "string" -> l.s = r.s
      [] l.k = "number" /\ r.k = "number" -> l.n = r.n
      [] l.k = "bool" /\ r.k = "bool" -> l.b = r.b
      [] l.k = "missing" /\ r.k = "missing" -> TRUE
      [] l.k = "string" /\ r.k = "number" ->
            LET p == ParseF64(l.s) IN p.ok /\ p.v = r.n
      [] l.k = "number" /\ r.k = "string" ->
            LET p == ParseF64(r.s) IN p.ok /\ p.v = l.n
      [] OTHER -> FALSE

value_contains(l, r) ==
    l.k = "string" /\ r.k = "string" /\ StrContains(l.s, r.s)

\* compare_values without its leading Missing test.
compare_values_no_missing_test(l, op, r) ==
    LET ln == as_number(l)
        rn == as_number(r)
    IN  IF ln.some /\ rn.some
        THEN CASE op = "Lt" -> Ok(ln.v < rn.v)
               [] op = "Gt" -> Ok(ln.v > rn.v)
               [] op = "LtEq" -> Ok(ln.v <= rn.v)
               [] op = "GtEq" -> Ok(ln.v >= rn.v)
               [] OTHER -> Err("EvaluationError")
        ELSE TypeMismatch(type_name(l), type_name(r))

\* Result<bool>
compare_values(l, op, r) ==
    IF is_missing(l) \/ is_missing(r) THEN Ok(FALSE)
    ELSE LET ln == as_number(l)
             rn == as_number(r)
         IN  IF ln.some /\ rn.some
             THEN CASE op = "Lt" -> Ok(ln.v < rn.v)
                    [] op = "Gt" -> Ok(ln.v > rn.v)
                    [] op = "LtEq" -> Ok(ln.v <= rn.v)
                    [] op = "GtEq" -> Ok(ln.v >= rn.v)
                    [] OTHER -> Err("EvaluationError")
             ELSE IF l.k = "string" /\ r.k = "string"
             THEN CASE op = "Lt" -> Ok(StrLess(l.s, r.s))
                    [] op = "Gt" -> Ok(StrLess(r.s, l.s))
                    [] op = "LtEq" -> Ok(~StrLess(r.s, l.s))
                    [] op = "GtEq" -> Ok(~StrLess(l.s, r.s))
                    [] OTHER -> Err("EvaluationError")
             ELSE TypeMismatch(type_name(l), type_name(r))

\* Result<bool>; no value kind fails.
value_to_bool(v) ==
    CASE v.k = "bool" -> Ok(v.b)
      [] v.k = "missing" -> Ok(FALSE)
      [] v.k = "string" -> Ok(v.s # <<>>)
      [] v.k = "number" -> Ok(v.n # 0)
      [] v.k = "array" -> Ok(v.a # <<>>)

\* The scan of the access parts: the last index, any wildcard, the last name.
RECURSIVE LastIndex(_)
LastIndex(parts) ==
    IF parts = <<>> THEN None
    ELSE LET l == parts[Len(parts)]
         IN  IF l.p = "Index" THEN Some(l.i)
             ELSE LastIndex(Take(parts, Len(parts) - 1))

RECURSIVE LastField(_)
LastField(parts) ==
    IF parts = <<>> THEN None
    ELSE LET l == parts[Len(parts)]
         IN  IF l.p = "Field" THEN Some(l.name)
             ELSE LastField(Take(parts, Len(parts) - 1))

\* The scan not noticing the wildcard
\* A wildcard counted only as the first access segment
HasWildcardLeading(parts) == parts # <<>> /\ parts[1] = Wildcard

HasWildcardIgnored(parts) == FALSE

HasWildcard(parts) == \E i \in 1..Len(parts) : parts[i].p = "Wildcard"

\* resolve_with_base without the FORMAT test of the subfield access.
resolve_with_base_no_format_guard(namespace, field_name, access_parts, r, info_map) ==
    LET base_value ==
            IF namespace = Some(N_INFO)
            THEN IF Has(r.info, field_name) THEN r.info[field_name] ELSE VMissing
            ELSE IF namespace = Some(N_FORMAT)
            THEN IF Has(r.format, field_name) THEN r.format[field_name] ELSE VMissing
            ELSE get(r, field_name)
        current_index == LastIndex(access_parts)
        is_wildcard == HasWildcard(access_parts)
        subfield_name == LastField(access_parts)
        byIndex ==
            IF current_index.some /\ base_value.k = "array"
                  /\ current_index.v < Len(base_value.a)
            THEN base_value.a[current_index.v + 1]
            ELSE VMissing
    IN  IF access_parts = <<>> THEN base_value
        ELSE IF subfield_name.some /\ is_wildcard
        THEN VArray(get_all_annotation_subfields(r, field_name, subfield_name.v, info_map))
        ELSE IF subfield_name.some /\ current_index.some
        THEN get_annotation_subfield(r, field_name, current_index.v,
                                     subfield_name.v, info_map)
        ELSE byIndex

\* namespace is None, Some(N_INFO) or Some(N_FORMAT).
resolve_with_base(namespace, field_name, access_parts, r, info_map) ==
    LET base_value ==
            IF namespace = Some(N_INFO)
            THEN IF Has(r.info, field_name) THEN r.info[field_name] ELSE VMissing
            ELSE IF namespace = Some(N_FORMAT)
            THEN IF Has(r.format, field_name) THEN r.format[field_name] ELSE VMissing
            ELSE get(r, field_name)
        current_index == LastIndex(access_parts)
        is_wildcard == HasWildcard(access_parts)
        subfield_name == LastField(access_parts)
        byIndex ==
            IF current_index.some /\ base_value.k = "array"
                  /\ current_index.v < Len(base_value.a)
            THEN base_value.a[current_index.v + 1]
            ELSE VMissing
    IN  IF access_parts = <<>> THEN base_value
        ELSE IF subfield_name.some /\ namespace = Some(N_FORMAT) THEN VMissing
        ELSE IF subfield_name.some /\ is_wildcard
        THEN VArray(get_all_annotation_subfields(r, field_name, subfield_name.v, info_map))
        ELSE IF subfield_name.some /\ current_index.some
        THEN get_annotation_subfield(r, field_name, current_index.v,
                                     subfield_name.v, info_map)
        ELSE byIndex

\* Result<Value>
resolve_variable(parts, r, info_map) ==
    IF parts = <<>> THEN Ok(VMissing)
    ELSE IF parts[1].p # "Field" THEN Err("EvaluationError")
    ELSE IF parts[1].name = N_INFO \/ parts[1].name = N_FORMAT
    THEN IF Len(parts) < 2 THEN Ok(VMissing)
         ELSE IF parts[2].p # "Field" THEN Ok(VMissing)
         ELSE Ok(resolve_with_base(Some(parts[1].name), parts[2].name,
                                   Drop(parts, 2), r, info_map))
    ELSE Ok(resolve_with_base(None, parts[1].name, Drop(parts, 1), r, info_map))

\* apply_binary with != on an Array true when some element differs.
apply_binary_some_differs(left_val, op, right_val) ==
    LET cmp == compare_values(left_val, op, right_val)
        any(P(_)) == \E i \in 1..Len(left_val.a) : P(left_val.a[i])
        all(P(_)) == \A i \in 1..Len(left_val.a) : P(left_val.a[i])
        eq(v) == values_equal(v, right_val)
        ne(v) == ~values_equal(v, right_val)
        has(v) == value_contains(v, right_val)
        sat(v) == LET c == compare_values(v, op, right_val) IN c.ok /\ c.v
    IN  IF left_val.k = "array"
        THEN Ok(VBool(CASE op = "Eq" -> any(eq)
                        [] op = "NotEq" -> any(ne)
                        [] op = "Contains" -> any(has)
                        [] OTHER -> any(sat)))
        ELSE CASE op = "Eq" -> Ok(VBool(values_equal(left_val, right_val)))
               [] op = "NotEq" -> Ok(VBool(~values_equal(left_val, right_val)))
               [] op \in OrderOps -> IF cmp.ok THEN Ok(VBool(cmp.v)) ELSE cmp
               [] op = "Contains" -> Ok(VBool(value_contains(left_val, right_val)))
               [] op = "And" ->
                     IF ~value_to_bool(left_val).v THEN Ok(VBool(FALSE))
                     ELSE Ok(VBool(value_to_bool(right_val).v))
               [] op = "Or" ->
                     IF value_to_bool(left_val).v THEN Ok(VBool(TRUE))
                     ELSE Ok(VBool(value_to_bool(right_val).v))

\* apply_binary with an ordering on an Array true when every element satisfies it.
apply_binary_every_element(left_val, op, right_val) ==
    LET cmp == compare_values(left_val, op, right_val)
        any(P(_)) == \E i \in 1..Len(left_val.a) : P(left_val.a[i])
        all(P(_)) == \A i \in 1..Len(left_val.a) : P(left_val.a[i])
        eq(v) == values_equal(v, right_val)
        ne(v) == ~values_equal(v, right_val)
        has(v) == value_contains(v, right_val)
        sat(v) == LET c == compare_values(v, op, right_val) IN c.ok /\ c.v
    IN  IF left_val.k = "array"
        THEN Ok(VBool(CASE op = "Eq" -> any(eq)
                        [] op = "NotEq" -> all(ne)
                        [] op = "Contains" -> any(has)
                        [] OTHER -> all(sat)))
        ELSE CASE op = "Eq" -> Ok(VBool(values_equal(left_val, right_val)))
               [] op = "NotEq" -> Ok(VBool(~values_equal(left_val, right_val)))
               [] op \in OrderOps -> IF cmp.ok THEN Ok(VBool(cmp.v)) ELSE cmp
               [] op = "Contains" -> Ok(VBool(value_contains(left_val, right_val)))
               [] op = "And" ->
                     IF ~value_to_bool(left_val).v THEN Ok(VBool(FALSE))
                     ELSE Ok(VBool(value_to_bool(right_val).v))
               [] op = "Or" ->
                     IF value_to_bool(left_val).v THEN Ok(VBool(TRUE))
                     ELSE Ok(VBool(value_to_bool(right_val).v))

\* The part of evaluate_binary that follows the evaluation of both operands.
apply_binary(left_val, op, right_val) ==
    LET cmp == compare_values(left_val, op, right_val)
        any(P(_)) == \E i \in 1..Len(left_val.a) : P(left_val.a[i])
        all(P(_)) == \A i \in 1..Len(left_val.a) : P(left_val.a[i])
        eq(v) == values_equal(v, right_val)
        ne(v) == ~values_equal(v, right_val)
        has(v) == value_contains(v, right_val)
        sat(v) == LET c == compare_values(v, op, right_val) IN c.ok /\ c.v
    IN  IF left_val.k = "array"
        THEN Ok(VBool(CASE op = "Eq" -> any(eq)
                        [] op = "NotEq" -> all(ne)
                        [] op = "Contains" -> any(has)
                        [] OTHER -> any(sat)))
        ELSE CASE op = "Eq" -> Ok(VBool(values_equal(left_val, right_val)))
               [] op = "NotEq" -> Ok(VBool(~values_equal(left_val, right_val)))
               [] op \in OrderOps -> IF cmp.ok THEN Ok(VBool(cmp.v)) ELSE cmp
               [] op = "Contains" -> Ok(VBool(value_contains(left_val, right_val)))
               [] op = "And" ->
                     IF ~value_to_bool(left_val).v THEN Ok(VBool(FALSE))
                     ELSE Ok(VBool(value_to_bool(right_val).v))
               [] op = "Or" ->
                     IF value_to_bool(left_val).v THEN Ok(VBool(TRUE))
                     ELSE Ok(VBool(value_to_bool(right_val).v))

RECURSIVE evaluate(_, _, _)

\* Both operands are evaluated, left then right, before the operator is looked at.
evaluate_binary(left, op, right, r, info_map) ==
    LET left_val == evaluate(left, r, info_map)
        right_val == evaluate(right, r, info_map)
    IN  IF ~left_val.ok THEN left_val
        ELSE IF ~right_val.ok THEN right_val
        ELSE apply_binary(left_val.v, op, right_val.v)

evaluate_unary(op, inner, r, info_map) ==
    LET val == evaluate(inner, r, info_map)
    IN  IF ~val.ok THEN val
        ELSE Ok(VBool(~value_to_bool(val.v).v))

evaluate(e, r, info_map) ==
    CASE e.t = "Number" -> Ok(VNumber(e.n))
      [] e.t = "String" -> Ok(VString(e.s))
      [] e.t = "Bool" -> Ok(VBool(e.b))
      [] e.t = "Var" -> resolve_variable(e.parts, r, info_map)
      [] e.t = "Binary" -> evaluate_binary(e.left, e.op, e.right, r, info_map)
      [] e.t = "Unary" -> evaluate_unary(e.op, e.inner, r, info_map)
      [] e.t = "Exists" ->
            LET value == resolve_variable(e.parts, r, info_map)
            IN  IF ~value.ok THEN value ELSE Ok(VBool(~is_missing(value.v)))

(***************************************************************************)
(* Shared pieces of the specifications.                                    *)
(***************************************************************************)
Idle == [done |-> FALSE]
Done(v) == [done |-> TRUE, v |-> v]

\* The engine specifications leave the call record alone, and the function
\* specifications leave the engine alone.
NoEngine == engine = None /\ line = <<>> /\ row = None /\ expr = None /\ result = None
EngineUnchanged == UNCHANGED <<engine, line, row, expr, result>>

\* All sequences over S of length at most n.
RECURSIVE SeqsUpTo(_, _)
SeqsUpTo(S, n) ==
    IF n = 0 THEN {<<>>}
    ELSE LET shorter == SeqsUpTo(S, n - 1)
         IN  shorter \cup {Append(q, x) : q \in shorter, x \in S}

(***************************************************************************)
(* OpsSpec: evaluate_binary's operator step on every pair of values.       *)
(***************************************************************************)
\* The longest Array among the operand values.
MaxArrayLen == 2

ScalarValues ==
    {VMissing, VBool(TRUE), VBool(FALSE), VNumber(0), VNumber(10), VNumber(25),
     VString(<<>>), VString(<<"a">>), VString(<<"a", "b">>), VString(<<"1">>),
     VString(<<"2", ".", "5">>), VString(<<"9">>), VString(<<"1", "0">>)}

ElementValues == {VMissing, VNumber(10), VString(<<"a">>), VString(<<"2", ".", "5">>)}

OperandValues ==
    ScalarValues \cup {VArray(a) : a \in SeqsUpTo(ElementValues, MaxArrayLen)}

OpsInit ==
    /\ NoEngine
    /\ args \in {[f |-> "apply_binary", l |-> l, op |-> op, r |-> r] :
                    l \in OperandValues, op \in BinaryOps, r \in OperandValues}
    /\ ret = Idle

OpsApply ==
    /\ ~ret.done
    /\ ret' = Done(apply_binary(args.l, args.op, args.r))
    /\ UNCHANGED args
    /\ EngineUnchanged

OpsNext == OpsApply

OpsSpec == OpsInit /\ [][OpsNext]_vars

MissingOperand == is_missing(args.l) \/ is_missing(args.r)

\* C2 as claimed: every comparison, equality or contains with a Missing
\* operand on either side gives Bool(false) and no error.
C2_MissingGivesFalse ==
    (ret.done /\ args.op \in CmpOps /\ MissingOperand) => ret.v = Ok(VBool(FALSE))

\* == with a Missing operand is true in two cases only.
MissingEqual ==
    \/ is_missing(args.l) /\ is_missing(args.r)
    \/ /\ args.l.k = "array"
       /\ is_missing(args.r)
       /\ \E i \in 1..Len(args.l.a) : is_missing(args.l.a[i])

\* C2 amended: with a Missing operand the ordering operators and contains
\* give Bool(false); == gives Bool(false) unless both operands are Missing
\* or the left is an Array holding a Missing element and the right is
\* Missing; != gives the negation of ==; none of them returns an error.
C2_MissingComparison ==
    (ret.done /\ args.op \in CmpOps /\ MissingOperand) =>
        ret.v = Ok(VBool(CASE args.op = "Eq" -> MissingEqual
                           [] args.op = "NotEq" -> ~MissingEqual
                           [] OTHER -> FALSE))

C2_Witness ==
    /\ ret.done
    /\ args.op = "Lt"
    /\ is_missing(args.l)
    /\ args.r.k = "number"
    /\ ret.v = Ok(VBool(FALSE))

(***************************************************************************)
(* C18                                                                     *)
(***************************************************************************)
\* l comes before r in the lexicographic order: at the first place where
\* they differ l ends or has the smaller character.
LexLess(l, r) ==
    \E k \in 1..Len(r) :
        /\ \A j \in 1..(k - 1) : j <= Len(l) /\ l[j] = r[j]
        /\ \/ Len(l) = k - 1
           \/ k <= Len(l) /\ Ord(l[k]) < Ord(r[k])

NumberOrder(op, l, r) ==
    CASE op = "Lt" -> l < r
      [] op = "Gt" -> l > r
      [] op = "LtEq" -> l <= r
      [] op = "GtEq" -> l >= r

TextOrder(op, l, r) ==
    CASE op = "Lt" -> LexLess(l, r)
      [] op = "Gt" -> LexLess(r, l)
      [] op = "LtEq" -> ~LexLess(r, l)
      [] op = "GtEq" -> ~LexLess(l, r)

OrderingCase ==
    /\ ret.done
    /\ args.op \in OrderOps
    /\ ~MissingOperand
    /\ args.l.k # "array"

\* C18: an ordering operator on two operands that are not Missing, the left
\* one no Array: when both coerce to numbers the result is their numeric
\* order; otherwise, when both are Strings, their lexicographic order;
\* otherwise the TypeMismatch error with the type name of the left operand
\* and the type name of the right operand.
C18_Ordering ==
    OrderingCase =>
        IF as_number(args.l).some /\ as_number(args.r).some
        THEN ret.v = Ok(VBool(NumberOrder(args.op, as_number(args.l).v,
                                          as_number(args.r).v)))
        ELSE IF args.l.k = "string" /\ args.r.k = "string"
        THEN ret.v = Ok(VBool(TextOrder(args.op, args.l.s, args.r.s)))
        ELSE ret.v = [ok |-> FALSE, err |-> "TypeMismatch",
                      left |-> args.l.k, right |-> args.r.k]

\* "10" < "9" is false: both coerce, 10 is not less than 9, although the
\* text "10" comes before "9".
C18_Witness ==
    /\ OrderingCase
    /\ args.op = "Lt"
    /\ args.l = VString(<<"1", "0">>)
    /\ args.r = VString(<<"9">>)
    /\ LexLess(args.l.s, args.r.s)
    /\ ret.v = Ok(VBool(FALSE))

\* "1" < "a" is true by the order of the texts.
C18_WitnessText ==
    /\ OrderingCase
    /\ args.op = "Lt"
    /\ args.l = VString(<<"1">>)
    /\ args.r = VString(<<"a">>)
    /\ ret.v = Ok(VBool(TRUE))

\* true >= 1.0 is the error naming bool, then number.
C18_WitnessMismatch ==
    /\ OrderingCase
    /\ args.l = VBool(TRUE)
    /\ args.r = VNumber(10)
    /\ ret.v = [ok |-> FALSE, err |-> "TypeMismatch",
                left |-> "bool", right |-> "number"]

(***************************************************************************)
(* C19                                                                     *)
(***************************************************************************)
NumericText(s) == ParseF64(s).ok

\* The pairs the specification's sentence lists as equal.
ListedEqual(l, r) ==
    \/ l.k = "string" /\ r.k = "string" /\ l.s = r.s
    \/ l.k = "bool" /\ r.k = "bool" /\ l.b = r.b
    \/ l.k = "missing" /\ r.k = "missing"
    \/ l.k = "string" /\ r.k = "number" /\ NumericText(l.s) /\ ParseF64(l.s).v = r.n
    \/ l.k = "number" /\ r.k = "string" /\ NumericText(r.s) /\ ParseF64(r.s).v = l.n

\* The same with two Numbers of the same value.
EqualByKind(l, r) ==
    \/ ListedEqual(l, r)
    \/ l.k = "number" /\ r.k = "number" /\ l.n = r.n

EqualityCase == ret.done /\ args.op \in {"Eq", "NotEq"}

\* C19 as claimed: == and != return no error; two Strings of the same
\* text, two equal Bools, two Missing and a numeric String with the Number
\* of its value are equal, every other pair of values is unequal.
C19_EqualityAsListed ==
    EqualityCase =>
        ret.v = Ok(VBool(IF args.op = "Eq" THEN ListedEqual(args.l, args.r)
                         ELSE ~ListedEqual(args.l, args.r)))

\* C19: == and != return no error. With a left operand that is no Array,
\* two Strings of the same text, two Numbers of the same value, two equal
\* Bools, two Missing and a numeric String with the Number of its value
\* (in either order) are equal and every other pair is unequal, an Array
\* on the right included. With an Array on the left, == is true when some
\* element equals the right operand in that sense and != when none does.
C19_Equality ==
    EqualityCase =>
        LET equal ==
                IF args.l.k = "array"
                THEN \E i \in 1..Len(args.l.a) : EqualByKind(args.l.a[i], args.r)
                ELSE EqualByKind(args.l, args.r)
        IN  ret.v = Ok(VBool(IF args.op = "Eq" THEN equal ELSE ~equal))

\* "1" == 1.0 is true.
C19_Witness ==
    /\ EqualityCase
    /\ args.op = "Eq"
    /\ args.l = VString(<<"1">>)
    /\ args.r = VNumber(10)
    /\ ret.v = Ok(VBool(TRUE))

\* 1.0 == 1.0 is true, 1.0 != true is true.
C19_WitnessNumbers ==
    /\ EqualityCase
    /\ args.op = "Eq"
    /\ args.l = VNumber(10)
    /\ args.r = VNumber(10)
    /\ ret.v = Ok(VBool(TRUE))

C19_WitnessOtherKinds ==
    /\ EqualityCase
    /\ args.op = "NotEq"
    /\ args.l = VNumber(10)
    /\ args.r = VBool(TRUE)
    /\ ret.v = Ok(VBool(TRUE))

(***************************************************************************)
(* RowSpec: an engine decodes row texts and the caller reads the built-in  *)
(* fields of the decoded row.                                              *)
(***************************************************************************)
HeaderText ==
    <<"#", "#", "I", "N", "F", "O", "=", "<", "I", "D", "=", "D", "P", ",", "N", "u", "m", "b", "e", "r", "=", "1", ",", "T", "y", "p", "e", "=", "I", "n", "t", "e", "g", "e", "r", ",", "D", "e", "s", "c", "r", "i", "p", "t", "i", "o", "n", "=", "\"", "d", "\"", ">", "\n", "#", "#", "I", "N", "F", "O", "=", "<", "I", "D", "=", "A", "N", ",", "N", "u", "m", "b", "e", "r", "=", ".", ",", "T", "y", "p", "e", "=", "S", "t", "r", "i", "n", "g", ",", "D", "e", "s", "c", "r", "i", "p", "t", "i", "o", "n", "=", "\"", "'", "G", " ", "|", " ", "I", "'", "\"", ">", "\n", "#", "#", "I", "N", "F", "O", "=", "<", "I", "D", "=", "L", "F", ",", "N", "u", "m", "b", "e", "r", "=", ".", ",", "T", "y", "p", "e", "=", "S", "t", "r", "i", "n", "g", ",", "D", "e", "s", "c", "r", "i", "p", "t", "i", "o", "n", "=", "\"", "'", "x", ".", "y", "|", "x", "_", "y", "'", "\"", ">", "\n", "#", "#", "I", "N", "F", "O", "=", "<", "I", "D", "=", "A", "F", ",", "N", "u", "m", "b", "e", "r", "=", "A", ",", "T", "y", "p", "e", "=", "F", "l", "o", "a", "t", ",", "D", "e", "s", "c", "r", "i", "p", "t", "i", "o", "n", "=", "\"", "f", "\"", ">", "\n", "#", "C", "H", "R", "O", "M">>

\* The most columns a row text has (columns past the tenth are ignored).
MaxColumns == 11

PosTexts == {<<"7">>, <<"0">>, <<"+", "7">>, <<>>, <<"x">>, <<"-", "1">>, <<"1", ".", "5">>, <<"1", "8", "4", "4", "6", "7", "4", "4", "0", "7", "3", "7", "0", "9", "5", "5", "1", "6", "1", "6">>}
IdTexts == {<<".">>, <<"r">>}
AltTexts == {<<".">>, <<"G">>, <<"G", ",", "T">>}
QualTexts == {<<".">>, <<"5">>, <<"3", ".", "5">>, <<"q">>}
FilterTexts == {<<".">>, <<"P">>, <<"P", ";", "q">>}

\* slice::join
RECURSIVE Join(_, _)
Join(pieces, sep) ==
    IF pieces = <<>> THEN <<>>
    ELSE IF Len(pieces) = 1 THEN pieces[1]
    ELSE pieces[1] \o <<sep>> \o Join(Tail(pieces), sep)

RowColumns(pos, id, alt, qual, filter) ==
    [i \in 1..MaxColumns |->
        CASE i = 1 -> <<"c">>
          [] i = 2 -> pos
          [] i = 3 -> id
          [] i = 4 -> <<"A">>
          [] i = 5 -> alt
          [] i = 6 -> qual
          [] i = 7 -> filter
          [] i = 8 -> <<"D", "P", "=", "3">>
          [] i = 9 -> <<"G", "T", ":", "D", "P">>
          [] i = 10 -> <<"0", "/", "1", ":", "1", "5">>
          [] OTHER -> <<"e">>]

\* The keys of column 9 and the values of column 10
KeyLists ==
    {<<<<"G", "T">>>>,
     <<<<"G", "T">>, <<"D", "P">>>>,
     <<<<"D", "P">>, <<"D", "P">>>>,
     <<<<"G", "T">>, <<"D", "P">>, <<"A", "N">>>>,
     <<<<>>>>}
ValueLists ==
    {<<<<"0", "/", "1">>>>,
     <<<<"0", "/", "1">>, <<"1", "5">>>>,
     <<<<".">>, <<"8">>>>,
     <<<<"1">>, <<"2">>, <<"3">>, <<"4">>>>,
     <<<<".">>>>,
     <<<<>>>>}

FirstEight == <<<<"c">>, <<"7">>, <<".">>, <<"A">>, <<"G">>, <<"5">>, <<"P">>, <<".">>>>

\* A row of ten columns with these keys and values, and one of nine
FormatRow(ks, vs) == Join(FirstEight \o <<Join(ks, ":"), Join(vs, ":")>>, TAB)
NoSampleRow(ks) == Join(FirstEight \o <<Join(ks, ":")>>, TAB)

FormatRowTexts ==
    {FormatRow(ks, vs) : ks \in KeyLists, vs \in ValueLists}
        \cup {NoSampleRow(ks) : ks \in KeyLists}

RowTexts ==
    {Join(Take(RowColumns(pos, id, alt, qual, filter), n), TAB) :
        n \in 1..MaxColumns, pos \in PosTexts, id \in IdTexts, alt \in AltTexts,
        qual \in QualTexts, filter \in FilterTexts}
        \cup FormatRowTexts

BuiltinNames == {N_CHROM, N_POS, N_ID, N_REF, N_ALT, N_QUAL, N_FILTER}

\* FilterEngine::new(header)
RowInit ==
    /\ engine = Some(parse_header(HeaderText).v)
    /\ line = <<>>
    /\ row = None
    /\ expr = None
    /\ result = None
    /\ args = [f |-> "none"]
    /\ ret = Idle

\* FilterEngine::parse_row(row)
RowParseRow ==
    /\ ~row.some
    /\ \E l \in RowTexts :
          /\ line' = l
          /\ row' = Some(parse_row(l, engine.v))
    /\ UNCHANGED <<engine, expr, result, args, ret>>

\* VcfRow::get(field) on the decoded row
RowGet ==
    /\ row.some /\ row.v.ok
    /\ ~ret.done
    /\ \E name \in BuiltinNames :
          /\ args' = [f |-> "get", field |-> name]
          /\ ret' = Done(get(row.v.v, name))
    /\ UNCHANGED <<engine, line, row, expr, result>>

RowNext == RowParseRow \/ RowGet

RowSpec == RowInit /\ [][RowNext]_vars

\* The columns of the text given to parse_row.
Cols == Split(line, TAB)

\* A non-negative integer the position type holds: digits, optionally
\* after a plus sign, of a value up to u64::MAX.
IsPosText(text) ==
    LET d == IF text # <<>> /\ text[1] = "+" THEN Tail(text) ELSE text
    IN  /\ d # <<>>
        /\ \A i \in 1..Len(d) : IsDigit(d[i])
        /\ FitsU64(d)

\* C9: a line with fewer than 8 columns fails with a RowParseError naming
\* the actual column count, a line with at least 8 columns whose POS is no
\* non-negative integer fails with a RowParseError, neither produces a
\* row, and every other line decodes.
C9_RowErrors ==
    row.some =>
        /\ Len(Cols) < 8 =>
              /\ ~row.v.ok
              /\ row.v.err = "RowParseError"
              /\ row.v.what = "columns"
              /\ row.v.got = Len(Cols)
        /\ (Len(Cols) >= 8 /\ ~IsPosText(Cols[2])) =>
              /\ ~row.v.ok
              /\ row.v.err = "RowParseError"
              /\ row.v.what = "POS"
        /\ (Len(Cols) >= 8 /\ IsPosText(Cols[2])) => row.v.ok

C9_Witness ==
    /\ row.some
    /\ Len(Cols) = 7
    /\ row.v = [ok |-> FALSE, err |-> "RowParseError", what |-> "columns", got |-> 7]

\* The value the specification gives a one-or-many column split on sep.
ScalarOrArray(text, sep) ==
    LET pieces == Split(text, sep)
    IN  IF text = <<".">> THEN VArray(<<>>)
        ELSE IF Len(pieces) = 1 THEN VString(text)
        ELSE VArray([i \in 1..Len(pieces) |-> VString(pieces[i])])

\* C10: get on a built-in name of a decoded row returns the literal column:
\* CHROM and REF as String, POS as Number, ID and QUAL Missing for ".",
\* ALT and FILTER a bare String for one element and an Array otherwise
\* (empty for ".").
C10_BuiltinFields ==
    (ret.done /\ args.f = "get") =>
        CASE args.field = N_CHROM -> ret.v = VString(Cols[1])
          [] args.field = N_REF -> ret.v = VString(Cols[4])
          [] args.field = N_POS ->
                ret.v.k = "number" /\ ret.v.n = ParseF64(Cols[2]).v
          [] args.field = N_ID ->
                ret.v = IF Cols[3] = <<".">> THEN VMissing ELSE VString(Cols[3])
          [] args.field = N_QUAL ->
                IF Cols[6] = <<".">> THEN ret.v = VMissing
                ELSE ParseF64(Cols[6]).ok =>
                        ret.v = VNumber(ParseF64(Cols[6]).v)
          [] args.field = N_ALT -> ret.v = ScalarOrArray(Cols[5], ",")
          [] args.field = N_FILTER -> ret.v = ScalarOrArray(Cols[7], ";")

C10_Witness ==
    /\ ret.done
    /\ args.f = "get"
    /\ args.field = N_ALT
    /\ Cols[5] = <<"G", ",", "T">>
    /\ ret.v = VArray(<<VString(<<"G">>), VString(<<"T">>)>>)

(***************************************************************************)
(* C23                                                                     *)
(***************************************************************************)
DecodedSample(v) == IF v = <<".">> THEN VMissing ELSE VString(v)

Paired(ks, vs) == 1..(IF Len(ks) < Len(vs) THEN Len(ks) ELSE Len(vs))

\* C23 as claimed: the FORMAT map holds the keys at the places below the
\* smaller of the two counts, the key at place i with the value at place i.
C23_FormatZip ==
    (row.some /\ row.v.ok) =>
        \A ks \in KeyLists, vs \in ValueLists :
            line = FormatRow(ks, vs) =>
                /\ DOMAIN row.v.v.format = {ks[i] : i \in Paired(ks, vs)}
                /\ \A i \in Paired(ks, vs) :
                      row.v.v.format[ks[i]] = DecodedSample(vs[i])

\* C23: with columns 9 and 10 the FORMAT map holds the keys at the places
\* below the smaller of the number of keys and the number of values, each
\* key with the value at the last such place where the key stands, a value
\* "." as Missing and any other as String; keys and values beyond are
\* ignored; with fewer than ten columns the FORMAT map is empty.
C23_FormatZipLastWins ==
    (row.some /\ row.v.ok) =>
        /\ \A ks \in KeyLists, vs \in ValueLists :
              line = FormatRow(ks, vs) =>
                  /\ DOMAIN row.v.v.format = {ks[i] : i \in Paired(ks, vs)}
                  /\ \A i \in Paired(ks, vs) :
                        (\A j \in Paired(ks, vs) : j > i => ks[j] # ks[i]) =>
                            row.v.v.format[ks[i]] = DecodedSample(vs[i])
        /\ \A ks \in KeyLists :
              line = NoSampleRow(ks) => row.v.v.format = EmptyMap
        /\ Len(Cols) < 10 => row.v.v.format = EmptyMap

\* GT:DP:AN with .:8: GT is Missing, DP is "8", AN is not in the map.
C23_Witness ==
    /\ row.some /\ row.v.ok
    /\ line = FormatRow(<<<<"G", "T">>, <<"D", "P">>, <<"A", "N">>>>,
                        <<<<".">>, <<"8">>>>)
    /\ row.v.v.format = Insert(Insert(EmptyMap, <<"G", "T">>, VMissing),
                               <<"D", "P">>, VString(<<"8">>))

\* DP:DP with 0/1:15: the one key DP holds the later value.
C23_WitnessTwice ==
    /\ row.some /\ row.v.ok
    /\ line = FormatRow(<<<<"D", "P">>, <<"D", "P">>>>,
                        <<<<"0", "/", "1">>, <<"1", "5">>>>)
    /\ row.v.v.format = Insert(EmptyMap, <<"D", "P">>, VString(<<"1", "5">>))

(***************************************************************************)
(* C28                                                                     *)
(***************************************************************************)
Opposite(op) == IF op = "Eq" THEN "NotEq" ELSE "Eq"

\* C28: for every pair of operand values, an Array or Missing on the left
\* included, == and != return a Bool and no error, and the one is the
\* negation of the other.
C28_NotEqNegatesEq ==
    EqualityCase =>
        /\ ret.v.ok /\ ret.v.v.k = "bool"
        /\ apply_binary(args.l, Opposite(args.op), args.r) = Ok(VBool(~ret.v.v.b))

\* [Missing, "a"] != "a" is false, == being true for the second element.
C28_Witness ==
    /\ EqualityCase
    /\ args.op = "NotEq"
    /\ args.l = VArray(<<VMissing, VString(<<"a">>)>>)
    /\ args.r = VString(<<"a">>)
    /\ ret.v = Ok(VBool(FALSE))

\* Missing != 0 is true, and the empty Array != Missing is true.
C28_WitnessMissing ==
    /\ EqualityCase
    /\ args.op = "NotEq"
    /\ args.l = VMissing
    /\ args.r = VNumber(0)
    /\ ret.v = Ok(VBool(TRUE))

C28_WitnessEmpty ==
    /\ EqualityCase
    /\ args.op = "NotEq"
    /\ args.l = VArray(<<>>)
    /\ args.r = VMissing
    /\ ret.v = Ok(VBool(TRUE))

(***************************************************************************)
(* C30                                                                     *)
(***************************************************************************)
\* The element compares with r without error and satisfies the operator.
Satisfies(v, op, r) ==
    /\ v.k # "missing" /\ r.k # "missing"
    /\ IF as_number(v).some /\ as_number(r).some
       THEN NumberOrder(op, as_number(v).v, as_number(r).v)
       ELSE v.k = "string" /\ r.k = "string" /\ TextOrder(op, v.s, r.s)

MismatchOf(l, r) ==
    [ok |-> FALSE, err |-> "TypeMismatch", left |-> l.k, right |-> r.k]

ArrayOrderingCase ==
    /\ ret.done
    /\ args.op \in OrderOps
    /\ (args.l.k = "array" \/ args.r.k = "array")

SomeElementSatisfies ==
    args.l.k = "array" =>
        ret.v = Ok(VBool(\E i \in 1..Len(args.l.a) :
                            Satisfies(args.l.a[i], args.op, args.r)))

\* C30 as claimed: an ordering operator with an Array on the left returns
\* no error and is true iff some element compares without error and
\* satisfies the operator; with the Array on the right and another value
\* on the left it returns the TypeMismatch error.
C30_ArrayOrderingAsClaimed ==
    ArrayOrderingCase =>
        /\ SomeElementSatisfies
        /\ args.l.k # "array" => ret.v = MismatchOf(args.l, args.r)

\* C30: an ordering operator with an Array on the left returns no error
\* and is true iff some element compares without error and satisfies the
\* operator; with the Array on the right and a left operand that is neither
\* an Array nor Missing it returns the TypeMismatch error naming the left
\* type and array, and with Missing on the left it returns false.
C30_ArrayOrdering ==
    ArrayOrderingCase =>
        /\ SomeElementSatisfies
        /\ args.l.k \notin {"array", "missing"} => ret.v = MismatchOf(args.l, args.r)
        /\ args.l.k = "missing" => ret.v = Ok(VBool(FALSE))

\* [1.0, "a"] < 2.5 is true by the first element, [Missing, "a"] > 1.0 is
\* false without error, and 1.0 < [1.0] is the error.
C30_Witness ==
    /\ ArrayOrderingCase
    /\ args.op = "Lt"
    /\ args.l = VArray(<<VNumber(10), VString(<<"a">>)>>)
    /\ args.r = VNumber(25)
    /\ ret.v = Ok(VBool(TRUE))

C30_WitnessMismatch ==
    /\ ArrayOrderingCase
    /\ args.op = "Gt"
    /\ args.l = VArray(<<VMissing, VString(<<"a">>)>>)
    /\ args.r = VNumber(10)
    /\ compare_values(VString(<<"a">>), "Gt", VNumber(10)) = MismatchOf(VString(<<"a">>), VNumber(10))
    /\ ret.v = Ok(VBool(FALSE))

C30_WitnessRight ==
    /\ ArrayOrderingCase
    /\ args.op = "Lt"
    /\ args.l = VNumber(10)
    /\ args.r = VArray(<<VNumber(10)>>)
    /\ ret.v = MismatchOf(args.l, args.r)

\* Missing < [1.0] is false.
C30_WitnessMissingLeft ==
    /\ ArrayOrderingCase
    /\ args.l = VMissing
    /\ args.r = VArray(<<VNumber(10)>>)
    /\ ret.v = Ok(VBool(FALSE))

(***************************************************************************)
(* Spec: one FilterEngine is built from a header, decodes rows and          *)
(* evaluates parsed expressions against the decoded row.                   *)
(***************************************************************************)
HeaderTexts == {HeaderText, <<>>}

EvalAltTexts == {<<"G">>,
    <<"G", ",", "T">>}

EvalInfoTexts ==
    {<<".">>,
    <<"D", "P", "=", "3">>,
    <<"D", "P", "=", "3", ";", "A", "N", "=", "c", "|", "d", ",", "a", "|", "b">>,
    <<"A", "N", "=", "a", "|", "b", ",", "a">>,
    <<"A", "N", "=", "b">>,
    <<"L", "F", "=", "a", "|", "b">>,
    <<"A", "N">>,
    <<"I", "N", "F", "O", "=", "5", ";", "D", "P", "=", "x">>,
    <<"A", "N", "=", "a", "|", "1", ",", "c", "|", "1", ".", "0">>}

\* Columns 9 and 10, or none.
EvalSampleTexts ==
    {<<>>,
     <<<<"G", "T", ":", "D", "P">>, <<"0", "/", "1", ":", "1", "5">>>>,
     <<<<"D", "P", ":", "A", "N">>, <<".", ":", "8">>>>,
     <<<<"I", "N", "F", "O", ":", "D", "P">>, <<"7">>>>}

\* Rows with three, one and no element in ALT and in FILTER
ElementCountRowTexts ==
    {<<"c", TAB, "7", TAB, ".", TAB, "A", TAB, "G", ",", "T", ",", "C", TAB, "5", TAB, "P", ";", "q", TAB, ".">>,
     <<"c", TAB, "7", TAB, ".", TAB, "A", TAB, "G", TAB, "5", TAB, "P", ";", "q", ";", "r", TAB, ".">>,
     <<"c", TAB, "7", TAB, ".", TAB, "A", TAB, ".", TAB, "5", TAB, ".", TAB, ".">>}

EvalRowTexts ==
    {Join(<<<<"c">>, <<"7">>, <<".">>, <<"A">>, alt, <<"5">>, <<"P">>, info>> \o fs, TAB) :
        alt \in EvalAltTexts, info \in EvalInfoTexts, fs \in EvalSampleTexts}
        \cup ElementCountRowTexts

T_DP == <<"D", "P">>
T_AN == <<"A", "N">>
T_LF == <<"L", "F">>
T_GT == <<"G", "T">>
T_ZZ == <<"Z", "Z">>

PathNames == {T_DP, T_AN, T_LF, T_GT, T_ZZ, N_INFO, N_ALT}
SubfieldNames == {<<"G">>, <<"I">>, <<"x", "_", "y">>, <<"Z">>}

LiteralExprs ==
    {EString(<<"a">>), EString(<<"b">>), EString(<<"1">>), ENumber(10),
     EBool(TRUE), EBool(FALSE)}

\* FIELD[*].Sub
WildcardPaths ==
    {EVar(<<Field(f), Wildcard, Field(sub)>>) :
        f \in {T_AN, T_LF, T_DP}, sub \in SubfieldNames}

\* NAME, INFO.NAME and FORMAT.NAME
NamePaths ==
    {EVar(<<Field(n)>>) : n \in PathNames}
        \cup {EVar(<<Field(ns), Field(n)>>) :
                ns \in {N_INFO, N_FORMAT}, n \in PathNames}

\* Expressions whose evaluation returns an error.
FailingExprs ==
    {EBinary(EString(<<"a">>), "Lt", ENumber(10)),
     EBinary(EVar(<<Field(N_ALT)>>), "Gt", EBool(TRUE)),
     EVar(<<Index(0)>>)}

LogicOperands ==
    LiteralExprs \cup {ENumber(0), EString(<<>>), EVar(<<Field(N_ALT)>>),
                       EVar(<<Field(T_AN)>>), EVar(<<Field(T_DP)>>),
                       EVar(<<Field(T_ZZ)>>),
                       EVar(<<Field(T_AN), Wildcard, Field(<<"G">>)>>)}

\* exists(path) for the paths above
ExistsExprs == {EExists(p.parts) : p \in NamePaths \cup WildcardPaths}

\* One or two access segments behind a name.
AccessSegments == {Index(0), Index(1), Wildcard, Field(<<"G">>), Field(T_DP)}
AccessChains ==
    {<<a>> : a \in AccessSegments}
        \cup {<<a, b>> : a \in AccessSegments, b \in AccessSegments}

\* FORMAT.NAME followed by access segments
FormatChainPaths ==
    {EVar(<<Field(N_FORMAT), Field(n)>> \o c) :
        n \in {T_DP, T_GT, T_AN, T_ZZ}, c \in AccessChains}

\* Access chains of each kind: none, index, subfield at an index, subfield
\* with wildcard, and chains holding both an index and a wildcard.
AccessIndexes == {0, 1, 2}
StructAccess ==
    {<<>>}
        \cup {<<Index(i)>> : i \in AccessIndexes}
        \cup {<<Wildcard, Index(i)>> : i \in AccessIndexes}
        \cup {<<Index(i), Field(sub)>> : i \in AccessIndexes, sub \in SubfieldNames}
        \cup {<<Wildcard, Field(sub)>> : sub \in SubfieldNames}
        \cup {<<Index(0), Wildcard, Field(sub)>> : sub \in SubfieldNames}
        \cup {<<Wildcard, Index(0), Field(sub)>> : sub \in SubfieldNames}

StructFields == {T_AN, T_LF, T_DP, T_ZZ, N_ALT}

\* FIELD or INFO.FIELD followed by an access chain
PathOf(qualified, f, access) ==
    EVar((IF qualified THEN <<Field(N_INFO)>> ELSE <<>>) \o <<Field(f)>> \o access)

StructuredPaths ==
    {PathOf(q, f, access) :
        q \in BOOLEAN, f \in StructFields, access \in StructAccess}

\* exists(FIELD[*].Sub) and exists(INFO.FIELD[*].Sub)
WildcardExists ==
    {EExists(PathOf(q, f, <<Wildcard, Field(sub)>>).parts) :
        q \in BOOLEAN, f \in StructFields, sub \in SubfieldNames}

\* INFO[*].Sub and FORMAT[*].Sub: a namespace word without a field name
NamespaceWildcards ==
    {EVar(<<Field(ns), Wildcard, Field(sub)>>) :
        ns \in {N_INFO, N_FORMAT}, sub \in SubfieldNames}
        \cup {EExists(<<Field(ns), Wildcard, Field(sub)>>) :
                ns \in {N_INFO, N_FORMAT}, sub \in SubfieldNames}

\* ALT[i] and FILTER[i]
ElementPaths ==
    {EVar(<<Field(f), Index(i)>>) : f \in {N_ALT, N_FILTER}, i \in AccessIndexes}

Exprs ==
    NamePaths
        \cup WildcardPaths
        \cup ElementPaths
        \cup ExistsExprs
        \cup WildcardExists
        \cup NamespaceWildcards
        \cup FormatChainPaths
        \cup StructuredPaths
        \cup {EBinary(w, op, v) :
                w \in WildcardPaths, op \in {"Eq", "NotEq"}, v \in LiteralExprs}
        \cup {EBinary(l, op, r) :
                l \in LogicOperands, op \in {"And", "Or"},
                r \in {EBool(TRUE), EBool(FALSE)} \cup FailingExprs}
        \cup {EUnary("Not", l) : l \in LogicOperands}

Init ==
    /\ engine = None
    /\ line = <<>>
    /\ row = None
    /\ expr = None
    /\ result = None
    /\ args = [f |-> "none"]
    /\ ret = Idle

\* FilterEngine::new(header)
New ==
    /\ ~engine.some
    /\ \E h \in HeaderTexts : engine' = Some(parse_header(h).v)
    /\ UNCHANGED <<line, row, expr, result, args, ret>>

\* FilterEngine::parse_row(row)
ParseRow ==
    /\ engine.some
    /\ ~row.some
    /\ \E l \in EvalRowTexts :
          /\ line' = l
          /\ row' = Some(parse_row(l, engine.v))
    /\ UNCHANGED <<engine, expr, result, args, ret>>

\* Ok(result.as_bool().unwrap_or(false)), or the error of evaluate
unwrap_or(option, default) == IF option.some THEN option.v ELSE default

AcceptedOrError(val) ==
    IF val.ok THEN Ok(unwrap_or(as_bool(val.v), FALSE)) ELSE val

\* The outcome of one evaluate_parsed call: the Value (or the error) of
\* eval::evaluate, and the bool (or the error) returned.
Evaluated(e, val) ==
    /\ expr' = Some(e)
    /\ result' = Some(val)
    /\ args' = [f |-> "evaluate_parsed"]
    /\ ret' = Done(AcceptedOrError(val))

\* FilterEngine::evaluate_parsed(expr, row)
EvaluateParsed ==
    /\ engine.some
    /\ row.some /\ row.v.ok
    /\ ~result.some
    /\ \E e \in Exprs : Evaluated(e, evaluate(e, row.v.v, engine.v))
    /\ UNCHANGED <<engine, line, row>>

Next == New \/ ParseRow \/ EvaluateParsed

Spec == Init /\ [][Next]_vars

\* The value of a sub-expression on the decoded row.
ValueOf(e) == evaluate(e, row.v.v, engine.v)

(***************************************************************************)
(* C1                                                                      *)
(***************************************************************************)
IsWildcardCompare(e) ==
    /\ e.t = "Binary"
    /\ e.op \in {"Eq", "NotEq"}
    /\ e.left \in WildcardPaths
    /\ e.right \in LiteralExprs

HasSchema(f) == Has(engine.v, f) /\ engine.v[f].subfields.some

\* The annotation instances of field f in the decoded row.
Instances(f) ==
    IF Has(row.v.v.info, f) /\ row.v.v.info[f].k = "array"
    THEN row.v.v.info[f].a ELSE <<>>

\* Instance inst of field f has subfield sub equal to v.
InstanceHas(f, inst, sub, v) ==
    \E p \in 1..Len(engine.v[f].subfields.v) :
        /\ engine.v[f].subfields.v[p] = sub
        /\ inst.k = "array"
        /\ p <= Len(inst.a)
        /\ values_equal(inst.a[p], v)

SomeInstanceHas(e) ==
    LET f == e.left.parts[1].name
        sub == e.left.parts[3].name
        v == ValueOf(e.right).v
    IN  \E i \in 1..Len(Instances(f)) : InstanceHas(f, Instances(f)[i], sub, v)

\* C1: for a field with a subfield schema, FIELD[*].Sub == V is true iff at
\* least one annotation instance of FIELD in the decoded row has Sub equal
\* to V, and FIELD[*].Sub != V is true iff no instance has.
C1_WildcardEquality ==
    (result.some /\ IsWildcardCompare(expr.v) /\ HasSchema(expr.v.left.parts[1].name)) =>
        result.v = Ok(VBool(IF expr.v.op = "Eq" THEN SomeInstanceHas(expr.v)
                            ELSE ~SomeInstanceHas(expr.v)))

\* AN[*].G == "a" on AN=c|d,a|b: only the second instance matches.
C1_Witness ==
    /\ result.some
    /\ expr.v = EBinary(EVar(<<Field(T_AN), Wildcard, Field(<<"G">>)>>), "Eq",
                        EString(<<"a">>))
    /\ HasSchema(T_AN)
    /\ Len(Instances(T_AN)) = 2
    /\ ~InstanceHas(T_AN, Instances(T_AN)[1], <<"G">>, VString(<<"a">>))
    /\ InstanceHas(T_AN, Instances(T_AN)[2], <<"G">>, VString(<<"a">>))
    /\ result.v = Ok(VBool(TRUE))

(***************************************************************************)
(* C3                                                                      *)
(***************************************************************************)
\* The names of the nine columns; INFO and FORMAT open a namespace.
ColumnNames == BuiltinNames \cup {N_INFO, N_FORMAT}

Lookup(m, name) == IF Has(m, name) THEN m[name] ELSE VMissing

TruthOf(v) ==
    CASE v.k = "bool" -> v.b
      [] v.k = "missing" -> FALSE
      [] v.k = "string" -> Len(v.s) > 0
      [] v.k = "number" -> v.n # 0
      [] v.k = "array" -> Len(v.a) > 0

IsLogic(e) == e.t = "Binary" /\ e.op \in {"And", "Or"}

\* C4 as claimed: when the left operand of && coerces to false, or the left
\* operand of || to true, the right operand is not evaluated, so the
\* result is Bool(false), or Bool(true), although the right operand on its
\* own returns an error.
C4_ShortCircuit ==
    (/\ result.some
     /\ IsLogic(expr.v)
     /\ ValueOf(expr.v.left).ok
     /\ ~ValueOf(expr.v.right).ok) =>
        LET l == TruthOf(ValueOf(expr.v.left).v)
        IN  /\ (expr.v.op = "And" /\ ~l) => result.v = Ok(VBool(FALSE))
            /\ (expr.v.op = "Or" /\ l) => result.v = Ok(VBool(TRUE))

\* C5 as claimed: L && R, L || R and !L convert every kind of operand
\* value, Array included, with the boolean coercion.
C5_LogicCoercesOperands ==
    /\ (/\ result.some
        /\ IsLogic(expr.v)
        /\ ValueOf(expr.v.left).ok
        /\ ValueOf(expr.v.right).ok) =>
            LET l == TruthOf(ValueOf(expr.v.left).v)
                r == TruthOf(ValueOf(expr.v.right).v)
            IN  result.v = Ok(VBool(IF expr.v.op = "And" THEN l /\ r ELSE l \/ r))
    /\ (result.some /\ expr.v.t = "Unary" /\ ValueOf(expr.v.inner).ok) =>
            result.v = Ok(VBool(~TruthOf(ValueOf(expr.v.inner).v)))

(***************************************************************************)
(* C11                                                                     *)
(***************************************************************************)
\* C11: exists(path) is Bool(true) exactly when the path resolves to a value
\* other than Missing: exists(INFO.NAME) tells whether the INFO map holds a
\* value for NAME, exists(FORMAT.NAME) whether the FORMAT map holds one that
\* was not written ".", whatever the other map holds.
C11_Exists ==
    (result.some /\ expr.v.t = "Exists") =>
        LET parts == expr.v.parts
            resolved == ValueOf(EVar(parts))
            info == row.v.v.info
            format == row.v.v.format
        IN  /\ resolved.ok
            /\ result.v = Ok(VBool(resolved.v # VMissing))
            /\ (Len(parts) = 2 /\ parts[1].name = N_INFO /\ parts[2].p = "Field") =>
                    result.v = Ok(VBool(Lookup(info, parts[2].name) # VMissing))
            /\ (Len(parts) = 2 /\ parts[1].name = N_FORMAT /\ parts[2].p = "Field") =>
                    result.v = Ok(VBool(Lookup(format, parts[2].name) # VMissing))

\* No INFO value for DP, FORMAT GT:DP with sample 0/1:15: exists(INFO.DP) is
\* false.
C11_Witness ==
    /\ result.some
    /\ expr.v = EExists(<<Field(N_INFO), Field(T_DP)>>)
    /\ ~Has(row.v.v.info, T_DP)
    /\ Lookup(row.v.v.format, T_DP) = VString(<<"1", "5">>)
    /\ result.v = Ok(VBool(FALSE))

\* The same row gives true for exists(FORMAT.DP).
C11_WitnessFormat ==
    /\ result.some
    /\ expr.v = EExists(<<Field(N_FORMAT), Field(T_DP)>>)
    /\ ~Has(row.v.v.info, T_DP)
    /\ Lookup(row.v.v.format, T_DP) = VString(<<"1", "5">>)
    /\ result.v = Ok(VBool(TRUE))

\* A FORMAT value written "." is there and Missing: exists(FORMAT.DP) is false.
C11_WitnessDot ==
    /\ result.some
    /\ expr.v = EExists(<<Field(N_FORMAT), Field(T_DP)>>)
    /\ Has(row.v.v.format, T_DP)
    /\ result.v = Ok(VBool(FALSE))

(***************************************************************************)
(* C12                                                                     *)
(***************************************************************************)
\* C12: on every row, a path FORMAT.NAME followed by one or more access
\* segments (index, wildcard, subfield name, in any combination) resolves
\* to Missing, whether or not the FORMAT map holds NAME.
C12_FormatChainMissing ==
    (result.some /\ expr.v \in FormatChainPaths) => result.v = Ok(VMissing)

\* FORMAT.DP.G on a row whose FORMAT map holds DP = "15"
C12_Witness ==
    /\ result.some
    /\ expr.v = EVar(<<Field(N_FORMAT), Field(T_DP), Field(<<"G">>)>>)
    /\ Lookup(row.v.v.format, T_DP) = VString(<<"1", "5">>)
    /\ result.v = Ok(VMissing)

\* FORMAT.DP[0] on the same kind of row
C12_WitnessIndex ==
    /\ result.some
    /\ expr.v = EVar(<<Field(N_FORMAT), Field(T_DP), Index(0)>>)
    /\ Lookup(row.v.v.format, T_DP) = VString(<<"1", "5">>)
    /\ result.v = Ok(VMissing)

(***************************************************************************)
(* C17                                                                     *)
(***************************************************************************)
\* The first place of the schema of f that carries the name, 0 when none.
SchemaPlace(f, sub) ==
    LET names == engine.v[f].subfields.v
        places == {p \in 1..Len(names) : names[p] = sub}
    IN  IF places = {} THEN 0
        ELSE CHOOSE p \in places : \A o \in places : p <= o

\* The value at the place of sub in every annotation instance of f.
FromEveryInstance(f, sub) ==
    IF ~HasSchema(f) THEN <<>>
    ELSE IF SchemaPlace(f, sub) = 0 THEN <<>>
    ELSE [n \in 1..Len(Instances(f)) |-> Instances(f)[n].a[SchemaPlace(f, sub)]]

\* The value at the place of sub in the instance at index i.
AtInstance(f, i, sub) ==
    IF ~HasSchema(f) THEN VMissing
    ELSE IF SchemaPlace(f, sub) = 0 THEN VMissing
    ELSE IF i >= Len(Instances(f)) THEN VMissing
    ELSE Instances(f)[i + 1].a[SchemaPlace(f, sub)]

ElementOf(base, i) ==
    IF base.k = "array" /\ i < Len(base.a) THEN base.a[i + 1] ELSE VMissing

\* The base value: the INFO map alone for INFO.FIELD, the row's get otherwise.
BaseOf(qualified, f) ==
    IF qualified THEN Lookup(row.v.v.info, f) ELSE get(row.v.v, f)

IndexIn(access) == access[CHOOSE k \in 1..Len(access) : access[k].p = "Index"].i
NamedLast(access) == access # <<>> /\ access[Len(access)].p = "Field"
WildcardIn(access) == \E k \in 1..Len(access) : access[k] = Wildcard

\* The value the specification gives for the access chain behind f.
ResolvedAs(qualified, f, access) ==
    IF access = <<>> THEN BaseOf(qualified, f)
    ELSE IF NamedLast(access) /\ WildcardIn(access)
    THEN VArray(FromEveryInstance(f, access[Len(access)].name))
    ELSE IF NamedLast(access)
    THEN AtInstance(f, IndexIn(access), access[Len(access)].name)
    ELSE ElementOf(BaseOf(qualified, f), IndexIn(access))

\* C17: behind the base field, a subfield name with a wildcard gives the
\* Array of the value at the subfield's schema position in every annotation
\* instance (empty without schema, without the name in the schema or
\* without the field), also when the chain holds an index as well; a
\* subfield name with an index gives the value at that position in the
\* instance at the index, Missing when the index is out of range or there
\* is no schema; an index without subfield name gives the element of the
\* base Array at the index, Missing when the base is no Array or the index
\* out of range; no access segment gives the base value.
C17_PathPriority ==
    (result.some /\ expr.v \in StructuredPaths) =>
        \E q \in BOOLEAN, f \in StructFields, access \in StructAccess :
            /\ expr.v = PathOf(q, f, access)
            /\ result.v = Ok(ResolvedAs(q, f, access))

\* AN[0][*].G on AN=c|d,a|b: the wildcard wins over the index.
C17_Witness ==
    /\ result.some
    /\ expr.v = EVar(<<Field(T_AN), Index(0), Wildcard, Field(<<"G">>)>>)
    /\ HasSchema(T_AN)
    /\ Len(Instances(T_AN)) = 2
    /\ result.v = Ok(VArray(<<VString(<<"c">>), VString(<<"a">>)>>))

\* AN[1].I on the same row: the second place of the second instance.
C17_WitnessIndex ==
    /\ result.some
    /\ expr.v = EVar(<<Field(T_AN), Index(1), Field(<<"I">>)>>)
    /\ HasSchema(T_AN)
    /\ Len(Instances(T_AN)) = 2
    /\ result.v = Ok(VString(<<"b">>))

\* ALT[1] on ALT = G,T, and ALT[2] out of range
C17_WitnessElement ==
    /\ result.some
    /\ expr.v = EVar(<<Field(N_ALT), Index(1)>>)
    /\ result.v = Ok(VString(<<"T">>))

(***************************************************************************)
(* The header resolver on one declaration: parse_header applied to         *)
(* ##INFO=<ID=X,Number=.,Type=String,Description="..."> for every short    *)
(* description text.                                                       *)
(***************************************************************************)
MaxDescLen == 6

DescChars == {"'", "|", "a", " ", "."}

DescTexts == SeqsUpTo(DescChars, MaxDescLen)

T_X == <<"X">>

Declaration(description) ==
    <<"#", "#", "I", "N", "F", "O", "=", "<", "I", "D", "=", "X", ",", "N", "u", "m", "b", "e", "r", "=", ".", ",", "T", "y", "p", "e", "=", "S", "t", "r", "i", "n", "g", ",", "D", "e", "s", "c", "r", "i", "p", "t", "i", "o", "n", "=", "\"">> \o description \o <<"\"", ">">>

HeaderInit ==
    /\ NoEngine
    /\ args \in {[f |-> "parse_header", description |-> d] : d \in DescTexts}
    /\ ret = Idle

HeaderParse ==
    /\ ~ret.done
    /\ ret' = Done(parse_header(Declaration(args.description)))
    /\ UNCHANGED args
    /\ EngineUnchanged

HeaderNext == HeaderParse

HeaderSpec == HeaderInit /\ [][HeaderNext]_vars

\* The text between the first single quote and the next one.
QuotePositions(d) == {i \in 1..Len(d) : d[i] = "'"}
HasQuotedSpan(d) == Cardinality(QuotePositions(d)) >= 2
FirstQuote(d) == CHOOSE i \in QuotePositions(d) : \A j \in QuotePositions(d) : i <= j
SecondQuote(d) ==
    CHOOSE i \in QuotePositions(d) \ {FirstQuote(d)} :
        \A j \in QuotePositions(d) \ {FirstQuote(d)} : i <= j
FirstSpan(d) == SubSeq(d, FirstQuote(d) + 1, SecondQuote(d) - 1)
IsHint(d) == HasQuotedSpan(d) /\ \E i \in 1..Len(FirstSpan(d)) : FirstSpan(d)[i] = "|"
Blank(seg) == \A i \in 1..Len(seg) : IsWhite(seg[i])
NotBlank(seg) == ~Blank(seg)
ResolvedField == ret.v.v[T_X]

\* C7 as claimed: a description with a single-quoted pipe-delimited hint of
\* k >= 2 segments resolves to a field whose subfield schema is present and
\* has exactly k entries.
C7_HintGivesSchema ==
    (ret.done /\ IsHint(args.description)) =>
        /\ ResolvedField.subfields.some
        /\ Len(ResolvedField.subfields.v) = Len(Split(FirstSpan(args.description), "|"))

\* C7, amended: when the first single-quoted span of the description holds
\* a pipe, the schema is made of the span's segments that are not blank,
\* trimmed and normalised, in source order; it is present exactly when
\* there are two or more of them.  Without such a span there is no schema.
C7_HintSegmentsGiveSchema ==
    ret.done =>
        LET d == args.description
            kept == SelectSeq(Split(FirstSpan(d), "|"), NotBlank)
        IN  /\ ret.v.ok
            /\ Has(ret.v.v, T_X)
            /\ IF IsHint(d) /\ Len(kept) >= 2
               THEN /\ ResolvedField.subfields.some
                    /\ Len(ResolvedField.subfields.v) = Len(kept)
                    /\ \A i \in 1..Len(kept) :
                          ResolvedField.subfields.v[i] = NormaliseSubfield(kept[i])
               ELSE ~ResolvedField.subfields.some

\* 'a||a' has three segments, two of them kept.
C7_Witness ==
    /\ ret.done
    /\ args.description = <<"'", "a", "|", "|", "a">> \o <<"'">>
    /\ ResolvedField.subfields = Some(<<<<"a">>, <<"a">>>>)

(***************************************************************************)
(* parse_info_value on the fields that declarations with a hint resolve    *)
(* to, for every short raw value.                                          *)
(***************************************************************************)
MaxRawLen == 4

RawChars == {"x", "y", ",", "|"}

RawTexts == SeqsUpTo(RawChars, MaxRawLen)

HintTexts ==
    {<<"'", "a", "|", "b", "'">>, <<"'", "a", "|", "a", "'">>, <<"'", "a", "|", "b", "|", "a", "'">>, <<"'", "a", ".", "b", "|", "a", "_", "b", "'">>, <<"'", "a", "|", "b", "|", "c", "'">>}

HintFields == {parse_header(Declaration(h)).v[T_X] : h \in HintTexts}

InfoInit ==
    /\ NoEngine
    /\ args \in {[f |-> "parse_info_value", raw |-> r, field |-> fd] :
                    r \in RawTexts, fd \in HintFields}
    /\ ret = Idle

InfoParseValue ==
    /\ ~ret.done
    /\ ret' = Done(parse_info_value(args.raw, args.field))
    /\ UNCHANGED args
    /\ EngineUnchanged

InfoNext == InfoParseValue

InfoSpec == InfoInit /\ [][InfoNext]_vars

\* C6 as claimed: with a schema of length k the decoded value is an Array
\* with one inner Array per comma-separated instance, each of length k,
\* whose position i holds the i-th pipe-separated segment of the instance,
\* or Missing when the instance has no such segment, also when two names
\* of the schema coincide.
C6_PositionsFollowSchema ==
    (ret.done /\ args.field.subfields.some) =>
        LET k == Len(args.field.subfields.v)
            instances == Split(args.raw, ",")
        IN  /\ ret.v.k = "array"
            /\ Len(ret.v.a) = Len(instances)
            /\ \A n \in 1..Len(instances) :
                  LET segments == Split(instances[n], "|")
                  IN  /\ ret.v.a[n].k = "array"
                      /\ Len(ret.v.a[n].a) = k
                      /\ \A i \in 1..k :
                            ret.v.a[n].a[i] =
                                IF i <= Len(segments) THEN VString(segments[i])
                                ELSE VMissing

(***************************************************************************)
(* filter.rs: parser().  A parser takes the text s and the position p of   *)
(* the next character, and returns the value with the position after it,   *)
(* or fails, or panics (an unwrap on an Err inside a map closure, which    *)
(* runs as soon as the inner parser has matched).  choice takes the first  *)
(* alternative that matches, repeated takes items until one fails.         *)
(***************************************************************************)
Letters ==
    {"a", "b", "c", "d", "e", "f", "g", "h", "i", "j", "k", "l", "m", "n", "o", "p", "q", "r", "s", "t", "u", "v", "w", "x", "y", "z",
     "A", "B", "C", "D", "E", "F", "G", "H", "I", "J", "K", "L", "M", "N", "O", "P", "Q", "R", "S", "T", "U", "V", "W", "X", "Y", "Z"}

IsIdentStart(c) == c = "_" \/ c \in Letters
IsIdentChar(c) == IsIdentStart(c) \/ IsDigit(c)

POk(v, pos) == [ok |-> TRUE, v |-> v, pos |-> pos]
PFail == [ok |-> FALSE, panic |-> FALSE]
PPanic == [ok |-> FALSE, panic |-> TRUE]
Settled(r) == r.ok \/ r.panic

\* The character at p, "" at the end of the input.
At(s, p) == IF p <= Len(s) THEN s[p] ELSE ""

\* The position after the longest run of characters satisfying Test from p.
RunEnd(s, p, Test(_)) ==
    CHOOSE q \in p..(Len(s) + 1) :
        /\ \A i \in p..(q - 1) : Test(s[i])
        /\ q = Len(s) + 1 \/ ~Test(s[q])

\* The text from p up to q, matched.
Span(s, p, q) == POk(SubSeq(s, p, q - 1), q)

\* Combinators on the result a of the parser that ran first.
\* a.padded(), after the leading whitespace: the trailing whitespace.
SkipWs(s, p) == RunEnd(s, p, IsWhite)
Padded(s, a) == IF a.ok THEN POk(a.v, SkipWs(s, a.pos)) ELSE a
\* a.map(F), a.to(v), a.or(b)
Map(a, F(_)) == IF a.ok THEN POk(F(a.v), a.pos) ELSE a
To(a, v) == IF a.ok THEN POk(v, a.pos) ELSE a
OrElse(a, b) == IF Settled(a) THEN a ELSE b
\* a.ignore_then(P), a.then_ignore(P)
IgnoreThen(s, a, P(_, _)) == IF a.ok THEN P(s, a.pos) ELSE a
Keep(v, b) == IF b.ok THEN POk(v, b.pos) ELSE b
ThenIgnore(s, a, P(_, _)) == IF a.ok THEN Keep(a.v, P(s, a.pos)) ELSE a

just(s, p, lit) ==
    IF p + Len(lit) - 1 <= Len(s) /\ SubSeq(s, p, p + Len(lit) - 1) = lit
    THEN POk(lit, p + Len(lit)) ELSE PFail

text_ident(s, p) ==
    IF IsIdentStart(At(s, p)) THEN Span(s, p, RunEnd(s, p + 1, IsIdentChar))
    ELSE PFail

\* A non-zero digit and the digits after it, or a single 0.
text_int(s, p) ==
    IF At(s, p) = "0" THEN POk(<<"0">>, p + 1)
    ELSE IF IsDigit(At(s, p)) THEN Span(s, p, RunEnd(s, p + 1, IsDigit))
    ELSE PFail

text_digits(s, p) ==
    IF IsDigit(At(s, p)) THEN Span(s, p, RunEnd(s, p + 1, IsDigit))
    ELSE PFail

text_keyword(s, p, word) ==
    LET Is(r) == IF r.ok /\ r.v = word THEN r ELSE PFail
    IN  Is(text_ident(s, p))

\* str::parse::<f64>() on the text of a number literal.  No digit string
\* overflows an f64; an integer part of more than eight digits is
\* represented by F64Large, above every other number of the model.
F64Large == AsF64(100000000)
ParseF64Literal(txt) ==
    LET dot == Find(txt, ".")
        int_len == IF dot = 0 THEN Len(txt) ELSE dot - 1
    IN  IF AllDigits(Take(txt, int_len)) /\ int_len > 8
        THEN [ok |-> TRUE, v |-> F64Large]
        ELSE ParseF64(txt)

\* text::int(10) and the optional fraction, collected, parsed and unwrapped
number(s, p) ==
    LET Unwrap(n, e) == IF n.ok THEN POk(ENumber(n.v), e) ELSE PPanic
        Literal(a, e) == Unwrap(ParseF64Literal(SubSeq(s, a, e - 1)), e)
        Fraction(i, f) == IF f.ok THEN f.pos ELSE i.pos
        Digits(a, i) ==
            IF ~i.ok THEN i
            ELSE Literal(a, Fraction(i, IgnoreThen(s, just(s, i.pos, <<".">>),
                                                   text_digits)))
        From(a) == Digits(a, text_int(s, a))
    IN  Padded(s, From(SkipWs(s, p)))

string(s, p) ==
    LET a == SkipWs(s, p)
        closing == {q \in (a + 1)..Len(s) : s[q] = "\""}
        q == CHOOSE x \in closing : \A y \in closing : x <= y
    IN  IF At(s, a) # "\"" \/ closing = {} THEN PFail
        ELSE POk(EString(SubSeq(s, a + 1, q - 1)), SkipWs(s, q + 1))

K_true == <<"t", "r", "u", "e">>
K_false == <<"f", "a", "l", "s", "e">>
K_exists == <<"e", "x", "i", "s", "t", "s">>
K_contains == <<"c", "o", "n", "t", "a", "i", "n", "s">>

boolean(s, p) ==
    LET From(a) == OrElse(To(text_keyword(s, a, K_true), EBool(TRUE)),
                          To(text_keyword(s, a, K_false), EBool(FALSE)))
    IN  Padded(s, From(SkipWs(s, p)))

\* text::ident().padded()
ident(s, p) == Padded(s, text_ident(s, SkipWs(s, p)))

\* a.then(item.repeated()).foldl(..): the items follow the first value.
Foldl(s, first, Rest(_, _, _)) ==
    IF first.ok THEN Rest(s, first.v, first.pos) ELSE first

\* One more item op.then(operand) of a repetition that has folded left so
\* far: an item that does not match ends the repetition before it.
FoldStep(s, left, p, op, right, Rest(_, _, _)) ==
    IF right.ok THEN Rest(s, EBinary(left, op, right.v), right.pos)
    ELSE IF right.panic THEN right
    ELSE POk(left, p)

FoldItem(s, left, p, op, Operand(_, _), Rest(_, _, _)) ==
    IF op.ok THEN FoldStep(s, left, p, op.v, Operand(s, op.pos), Rest)
    ELSE POk(left, p)

\* text::int(10).map(|s| AccessPart::Index(s.parse().unwrap())), a usize
UnwrapIndex(n, pos) == IF n.ok THEN POk(Index(n.v), pos) ELSE PPanic
IndexDigits(i) == IF i.ok THEN UnwrapIndex(ParseU64(i.v), i.pos) ELSE i
IndexInner(s, p) ==
    OrElse(To(just(s, p, <<"*">>), Wildcard), IndexDigits(text_int(s, p)))
CloseBracket(s, p) == just(s, p, <<"]">>)

\* [*] or [n]
array_index(s, p) ==
    ThenIgnore(s, IgnoreThen(s, just(s, p, <<"[">>), IndexInner), CloseBracket)

field_access(s, p) == Map(IgnoreThen(s, just(s, p, <<".">>), ident), Field)

\* choice((array_index, field_access)).repeated() after the parts so far
RECURSIVE AccessChain(_, _, _)
ChainItem(s, parts, p, item) ==
    IF item.ok THEN AccessChain(s, Append(parts, item.v), item.pos)
    ELSE IF item.panic THEN item
    ELSE POk(parts, p)

AccessChain(s, parts, p) ==
    ChainItem(s, parts, p, OrElse(array_index(s, p), field_access(s, p)))

\* An identifier and its access chain: the parts of a path.
FirstPart(name) == <<Field(name)>>
AccessPath(s, p) == Foldl(s, Map(ident(s, p), FirstPart), AccessChain)

variable(s, p) == Padded(s, Map(AccessPath(s, p), EVar))

open_paren(s, p) == Padded(s, just(s, SkipWs(s, p), <<"(">>))
close_paren(s, p) == Padded(s, just(s, SkipWs(s, p), <<")">>))

ExistsPath(s, p) ==
    ThenIgnore(s, IgnoreThen(s, open_paren(s, p), AccessPath), close_paren)

exists_fn(s, p) ==
    Map(IgnoreThen(s, Padded(s, text_keyword(s, SkipWs(s, p), K_exists)), ExistsPath),
        EExists)

RECURSIVE full_expr(_, _)

paren_expr(s, p) ==
    ThenIgnore(s, IgnoreThen(s, open_paren(s, p), full_expr), close_paren)

atom(s, p) ==
    OrElse(exists_fn(s, p),
    OrElse(boolean(s, p),
    OrElse(number(s, p),
    OrElse(string(s, p),
    OrElse(paren_expr(s, p),
           variable(s, p))))))

\* just('!').padded().repeated(): the number of ! and the position after.
RECURSIVE Bangs(_, _, _)
Bangs(s, p, n) ==
    LET bang == Padded(s, just(s, SkipWs(s, p), <<"!">>))
    IN  IF bang.ok THEN Bangs(s, bang.pos, n + 1) ELSE [n |-> n, pos |-> p]

RECURSIVE Nots(_, _)
Nots(n, e) == IF n = 0 THEN e ELSE EUnary("Not", Nots(n - 1, e))

\* .then(atom).foldr(..)
Foldr(n, a) == IF a.ok THEN POk(Nots(n, a.v), a.pos) ELSE a
ThenAtom(s, bangs) == Foldr(bangs.n, atom(s, bangs.pos))

unary(s, p) == ThenAtom(s, Bangs(s, p, 0))

CmpTokens ==
    <<[lit |-> <<"=", "=">>, op |-> "Eq"], [lit |-> <<"!", "=">>, op |-> "NotEq"],
      [lit |-> <<"<", "=">>, op |-> "LtEq"], [lit |-> <<">", "=">>, op |-> "GtEq"],
      [lit |-> <<"<">>, op |-> "Lt"], [lit |-> <<">">>, op |-> "Gt"]>>

cmp_op(s, p) ==
    LET a == SkipWs(s, p)
        hits == {i \in 1..Len(CmpTokens) : just(s, a, CmpTokens[i].lit).ok}
        first == CmpTokens[CHOOSE i \in hits : \A j \in hits : i <= j]
    IN  IF hits # {} THEN POk(first.op, SkipWs(s, a + Len(first.lit)))
        ELSE Padded(s, To(text_keyword(s, a, K_contains), "Contains"))

\* cmp_op.then(unary).repeated()
RECURSIVE CmpTail(_, _, _)
CmpTail(s, left, p) == FoldItem(s, left, p, cmp_op(s, p), unary, CmpTail)

comparison(s, p) == Foldl(s, unary(s, p), CmpTail)

\* and_op taking || as well: the two operators at one level
and_op_same_level(s, p) ==
    OrElse(Padded(s, To(just(s, SkipWs(s, p), <<"&", "&">>), "And")),
           Padded(s, To(just(s, SkipWs(s, p), <<"|", "|">>), "Or")))

and_op(s, p) == Padded(s, To(just(s, SkipWs(s, p), <<"&", "&">>), "And"))

\* and_op.then(comparison).repeated()
RECURSIVE AndTail(_, _, _)
AndTail(s, left, p) == FoldItem(s, left, p, and_op(s, p), comparison, AndTail)

and_expr(s, p) == Foldl(s, comparison(s, p), AndTail)

or_op(s, p) == Padded(s, To(just(s, SkipWs(s, p), <<"|", "|">>), "Or"))

\* or_op.then(and_expr).repeated()
RECURSIVE OrTail(_, _, _)
OrTail(s, left, p) == FoldItem(s, left, p, or_op(s, p), and_expr, OrTail)

full_expr(s, p) == Foldl(s, and_expr(s, p), OrTail)

\* The thread unwinds: no value is returned.
Panic == [ok |-> FALSE, panic |-> TRUE]

\* parse_filter without then_ignore(end())
parse_filter_prefix(filter) ==
    LET Prefix(r) ==
            IF r.ok THEN Ok(r.v)
            ELSE IF r.panic THEN [ok |-> FALSE, panic |-> TRUE]
            ELSE Err("Simple")
    IN  Prefix(full_expr(filter, 1))

\* filter.rs parse_filter: parser().then_ignore(end()).parse(filter)
parse_filter(filter) ==
    LET End(r) ==
            IF r.ok
            THEN (IF r.pos = Len(filter) + 1 THEN Ok(r.v) ELSE Err("Simple"))
            ELSE IF r.panic THEN Panic
            ELSE Err("Simple")
    IN  End(full_expr(filter, 1))

\* FilterEngine::parse_filter
FilterEngine_parse_filter(filter) ==
    LET MapErr(r) == IF r.ok \/ r = Panic THEN r ELSE Err("FilterParseError")
    IN  MapErr(parse_filter(filter))

(***************************************************************************)
(* The parser on every text made of a few tokens.                          *)
(***************************************************************************)
MaxChunks == 3

Chunks ==
    {<<"Q">>,
     <<" ">>,
     <<">">>,
     <<"=", "=">>,
     <<"&", "&">>,
     <<"|", "|">>,
     <<"!">>,
     <<"(">>,
     <<")">>,
     <<"1">>,
     <<"1", "8", "4", "4", "6", "7", "4", "4", "0", "7", "3", "7", "0", "9", "5", "5", "1", "6", "1", "6">>,
     <<".">>,
     <<"[", "0", "]">>,
     <<"[", "*", "]">>,
     <<"[", "1", "8", "4", "4", "6", "7", "4", "4", "0", "7", "3", "7", "0", "9", "5", "5", "1", "6", "1", "6", "]">>,
     <<"\"">>,
     <<"t", "r", "u", "e">>,
     <<"e", "x", "i", "s", "t", "s", "(">>}

ExampleTexts ==
    {<<"Q", "U", "A", "L", " ", ">", " ", "3", "0">>,
     <<"Q", "U", "A", "L", " ", ">">>,
     <<"a", " ", "|", "|", " ", "b", " ", "&", "&", " ", "c">>,
     <<"!", "a", " ", "=", "=", " ", "b">>,
     <<"a", " ", "<", " ", "b", " ", "<", " ", "c">>,
     <<"A", "N", "N", "[", "0", "]", ".", "G", "e", "n", "e", "_", "N", "a", "m", "e", " ", "=", "=", " ", "\"", "B", "R", "C", "A", "1", "\"">>,
     <<"e", "x", "i", "s", "t", "s", "(", "A", "N", "N", "[", "*", "]", ".", "x", ")">>,
     <<"x", " ", "c", "o", "n", "t", "a", "i", "n", "s", " ", "\"", "a", "\"">>,
     <<"f", "a", "l", "s", "e">>,
     <<"1", ".", "5", " ", ">", "=", " ", "0">>,
     <<"(", "a", ")">>}

\* The binary operators with their tokens and their levels of precedence.
OpTokens ==
    {[lit |-> <<"|", "|">>, op |-> "Or", level |-> 1],
     [lit |-> <<"&", "&">>, op |-> "And", level |-> 2],
     [lit |-> <<"=", "=">>, op |-> "Eq", level |-> 3],
     [lit |-> <<"!", "=">>, op |-> "NotEq", level |-> 3],
     [lit |-> <<"<">>, op |-> "Lt", level |-> 3],
     [lit |-> <<">">>, op |-> "Gt", level |-> 3],
     [lit |-> <<"<", "=">>, op |-> "LtEq", level |-> 3],
     [lit |-> <<">", "=">>, op |-> "GtEq", level |-> 3],
     [lit |-> K_contains, op |-> "Contains", level |-> 3]}

\* a OP1 b OP2 c, !a OP b and a OP !b
ChainText(o1, o2) ==
    <<"a", " ">> \o o1.lit \o <<" ", "b", " ">> \o o2.lit \o <<" ", "c">>
NotLeftText(o) == <<"!", "a", " ">> \o o.lit \o <<" ", "b">>
NotRightText(o) == <<"a", " ">> \o o.lit \o <<" ", "!", "b">>

PrecedenceTexts ==
    {ChainText(o1, o2) : o1 \in OpTokens, o2 \in OpTokens}
        \cup {NotLeftText(o) : o \in OpTokens}
        \cup {NotRightText(o) : o \in OpTokens}

RECURSIVE Flatten(_)
Flatten(ss) == IF ss = <<>> THEN <<>> ELSE Head(ss) \o Flatten(Tail(ss))

FilterTextsOf ==
    {Flatten(cs) : cs \in SeqsUpTo(Chunks, MaxChunks)}
        \cup ExampleTexts \cup PrecedenceTexts

ParserInit ==
    /\ NoEngine
    /\ args \in {[f |-> "parse_filter", filter |-> x] : x \in FilterTextsOf}
    /\ ret = Idle

ParseFilter ==
    /\ ~ret.done
    /\ ret' = Done(FilterEngine_parse_filter(args.filter))
    /\ UNCHANGED args
    /\ EngineUnchanged

ParserNext == ParseFilter

ParserSpec == ParserInit /\ [][ParserNext]_vars

\* C8 as claimed: for every expression text, parsing returns an AST or a
\* filter-parse error and never panics, also for an index or number
\* literal whose digit string is longer than the machine integer width.
C8_ParsingNeverPanics ==
    ret.done => (ret.v.ok \/ ret.v = Err("FilterParseError"))

(***************************************************************************)
(* C20                                                                     *)
(***************************************************************************)
NameA == EVar(<<Field(<<"a">>)>>)
NameB == EVar(<<Field(<<"b">>)>>)
NameC == EVar(<<Field(<<"c">>)>>)

\* The tree of a OP1 b OP2 c: the operator of the higher level takes its
\* operands first, operators of one level from left to right.
ChainTree(o1, o2) ==
    IF o1.level >= o2.level
    THEN EBinary(EBinary(NameA, o1.op, NameB), o2.op, NameC)
    ELSE EBinary(NameA, o1.op, EBinary(NameB, o2.op, NameC))

\* C20: || binds loosest, then &&, then the comparisons and contains,
\* then !, then the atoms, and operators of one level associate to the
\* left: for every two binary operators a OP1 b OP2 c is the tree in which
\* the operator of the higher level, or the left one of two of the same
\* level, is the inner node, and ! applies to the atom behind it whatever
\* binary operator follows or precedes.
C20_Precedence ==
    ret.done =>
        /\ \A o1 \in OpTokens, o2 \in OpTokens :
              args.filter = ChainText(o1, o2) => ret.v = Ok(ChainTree(o1, o2))
        /\ \A o \in OpTokens :
              /\ args.filter = NotLeftText(o) =>
                    ret.v = Ok(EBinary(EUnary("Not", NameA), o.op, NameB))
              /\ args.filter = NotRightText(o) =>
                    ret.v = Ok(EBinary(NameA, o.op, EUnary("Not", NameB)))

\* a || b && c is Or(a, And(b, c)).
C20_Witness ==
    /\ ret.done
    /\ args.filter = <<"a", " ", "|", "|", " ", "b", " ", "&", "&", " ", "c">>
    /\ ret.v = Ok(EBinary(NameA, "Or", EBinary(NameB, "And", NameC)))

\* !a == b is Eq(Not(a), b).
C20_WitnessNot ==
    /\ ret.done
    /\ args.filter = <<"!", "a", " ", "=", "=", " ", "b">>
    /\ ret.v = Ok(EBinary(EUnary("Not", NameA), "Eq", NameB))

\* a < b < c is Lt(Lt(a, b), c).
C20_WitnessChain ==
    /\ ret.done
    /\ args.filter = <<"a", " ", "<", " ", "b", " ", "<", " ", "c">>
    /\ ret.v = Ok(EBinary(EBinary(NameA, "Lt", NameB), "Lt", NameC))

(***************************************************************************)
(* C21                                                                     *)
(***************************************************************************)
\* The expression at the start of the text, and where it ends.
Consumed == full_expr(args.filter, 1)

\* An expression is found at the start and text is left behind it (the
\* white space behind the expression belongs to it).
TextLeftOver == Consumed.ok /\ Consumed.pos <= Len(args.filter)

\* C21: a text is accepted only when the expression at its start takes the
\* whole of it: a text with an expression at its start and text other than
\* white space left behind it is rejected with the syntax error, and a
\* rejection carries the error alone, no tree.
C21_WholeTextConsumed ==
    ret.done =>
        /\ TextLeftOver => ret.v = Err("FilterParseError")
        /\ ret.v.ok => (Consumed.ok /\ Consumed.pos = Len(args.filter) + 1
                         /\ ret.v = Ok(Consumed.v))
        /\ ~ret.v.ok => DOMAIN ret.v \in {{"ok", "err"}, {"ok", "panic"}}

\* "Q )": the name is an expression, the parenthesis is left over.
C21_Witness ==
    /\ ret.done
    /\ args.filter = <<"Q", " ", ")">>
    /\ TextLeftOver
    /\ Consumed.v = EVar(<<Field(<<"Q">>)>>)
    /\ ret.v = Err("FilterParseError")

\* "Q " is accepted: the white space is consumed with the name.
C21_WitnessSpace ==
    /\ ret.done
    /\ args.filter = <<"Q", " ">>
    /\ ret.v = Ok(EVar(<<Field(<<"Q">>)>>))

(***************************************************************************)
(* lib.rs: the calls of FilterEngine. The engine is its info_map.          *)
(***************************************************************************)
\* FilterEngine::parse_row(row)
FilterEngine_parse_row(info_map, text) == parse_row(text, info_map)

\* FilterEngine::evaluate_parsed(expr, row)
FilterEngine_evaluate_parsed(info_map, e, r) ==
    AcceptedOrError(evaluate(e, r, info_map))

\* The steps of FilterEngine::evaluate after the two parses: the error of
\* the row first, then the error of the filter, then the evaluation.
EvaluateSteps(info_map, parsed_row, parsed_expr) ==
    IF ~parsed_row.ok THEN parsed_row
    ELSE IF ~parsed_expr.ok THEN parsed_expr
    ELSE AcceptedOrError(evaluate(parsed_expr.v, parsed_row.v, info_map))

\* FilterEngine::evaluate with the filter parsed before the row.
FilterEngine_evaluate_filter_first(info_map, filter, text) ==
    EvaluateSteps(info_map, FilterEngine_parse_filter(filter),
                  parse_row(text, info_map))

\* FilterEngine::evaluate(filter, row)
FilterEngine_evaluate(info_map, filter, text) ==
    EvaluateSteps(info_map, parse_row(text, info_map),
                  FilterEngine_parse_filter(filter))

(***************************************************************************)
(* ApiSpec: one engine; rows are decoded, filters parsed, the parsed pair  *)
(* evaluated again and again, and the same two texts given to evaluate.    *)
(***************************************************************************)
\* The most evaluate_parsed calls on one pair of expression and row.
MaxCalls == 3

ApiRowTexts ==
    {<<"c", TAB, "7", TAB, ".", TAB, "A", TAB, "G", TAB, "5", "0", TAB, "P", TAB, "D", "P", "=", "3">>,
     <<"c", TAB, "7", TAB, ".", TAB, "A", TAB, "G", TAB, "5", TAB, "P", TAB, ".">>,
     <<"c", TAB, "x", TAB, ".", TAB, "A", TAB, "G", TAB, "5", TAB, "P", TAB, ".">>,
     <<"c", TAB, "7">>,
     <<"c", TAB, "7", TAB, ".", TAB, "A", TAB, "G", ",", "T", TAB, "5", "0", TAB, "P", TAB, "D", "P", "=", "3", "0">>}

ApiFilterTexts ==
    {<<"Q", "U", "A", "L", " ", ">", " ", "3", "0">>,
     <<"Q", "U", "A", "L", " ", ">">>,
     <<"\"", "a", "\"", " ", "<", " ", "1">>,
     <<"D", "P">>,
     <<"e", "x", "i", "s", "t", "s", "(", "D", "P", ")">>,
     <<"Q", "[", "1", "8", "4", "4", "6", "7", "4", "4", "0", "7", "3", "7", "0", "9", "5", "5", "1", "6", "1", "6", "]">>,
     <<"!", "Q", "U", "A", "L">>,
     <<"!", "!", "D", "P">>,
     <<"D", "P", " ", "&", "&", " ", "t", "r", "u", "e">>,
     <<"A", "L", "T">>,
     <<"C", "H", "R", "O", "M">>}

ApiInit ==
    /\ engine \in {Some(parse_header(h).v) : h \in HeaderTexts}
    /\ line = <<>>
    /\ row = None
    /\ expr = None
    /\ result = None
    /\ args = [f |-> "FilterEngine", filter |-> <<>>, calls |-> 0]
    /\ ret = Idle

\* let row = engine.parse_row(text)
ApiParseRow ==
    /\ \E text \in ApiRowTexts :
          /\ line' = text
          /\ row' = Some(FilterEngine_parse_row(engine.v, text))
    /\ result' = None
    /\ args' = [args EXCEPT !.calls = 0]
    /\ ret' = Idle
    /\ UNCHANGED <<engine, expr>>

\* let expr = engine.parse_filter(filter)
ApiParseFilter ==
    /\ \E filter \in ApiFilterTexts :
          /\ args' = [args EXCEPT !.filter = filter, !.calls = 0]
          /\ expr' = Some(FilterEngine_parse_filter(filter))
    /\ result' = None
    /\ ret' = Idle
    /\ UNCHANGED <<engine, line, row>>

\* engine.evaluate_parsed(&expr, &row)
ApiEvaluateParsed ==
    /\ row.some /\ row.v.ok
    /\ expr.some /\ expr.v.ok
    /\ args.calls < MaxCalls
    /\ result' = Some(FilterEngine_evaluate_parsed(engine.v, expr.v.v, row.v.v))
    /\ args' = [args EXCEPT !.calls = @ + 1]
    /\ UNCHANGED <<engine, line, row, expr, ret>>

\* engine.evaluate(filter, text) on the two texts that were parsed
ApiEvaluate ==
    /\ row.some
    /\ expr.some
    /\ ~ret.done
    /\ ret' = Done(FilterEngine_evaluate(engine.v, args.filter, line))
    /\ UNCHANGED <<engine, line, row, expr, result, args>>

ApiNext == ApiParseRow \/ ApiParseFilter \/ ApiEvaluateParsed \/ ApiEvaluate

ApiSpec == ApiInit /\ [][ApiNext]_vars

(***************************************************************************)
(* C13                                                                     *)
(***************************************************************************)
\* The outcome of parse_row, parse_filter and evaluate_parsed in a row: the
\* first error met, or the result of evaluate_parsed.
StepwiseAgrees ==
    (ret.done /\ row.some /\ expr.some) =>
        IF ~row.v.ok THEN ret.v = row.v
        ELSE IF ~expr.v.ok THEN ret.v = expr.v
        ELSE result.some => ret.v = result.v

\* A further evaluate_parsed call on the same expression and the same row
\* returns what the call before it returned, and changes neither of them.
ReuseUnchanged ==
    (result.some /\ result'.some) =>
        (result' = result /\ row' = row /\ expr' = expr /\ engine' = engine)

\* C13: evaluate(filter, row) returns what parse_row, parse_filter and
\* evaluate_parsed return when called one after the other (the same
\* boolean or the same error), and a parsed expression and a decoded row
\* give the same result in every evaluate_parsed call.
C13_EvaluateIsStepwise == [](StepwiseAgrees) /\ [][ReuseUnchanged]_vars

\* QUAL > 30 on a row of QUAL 50: true from evaluate and from the third
\* evaluate_parsed call.
C13_Witness ==
    /\ ret = Done(Ok(TRUE))
    /\ result = Some(Ok(TRUE))
    /\ args.calls = MaxCalls
    /\ row.v.ok /\ expr.v.ok

\* A malformed row and a malformed filter: both report the row's error.
C13_WitnessErrors ==
    /\ ret.done
    /\ row.some /\ ~row.v.ok
    /\ expr.some /\ expr.v = Err("FilterParseError")
    /\ ret.v = row.v

(***************************************************************************)
(* main.rs run_filter: the lines of the input are read one by one; header  *)
(* lines are written out and collected, the #CHROM line builds the engine, *)
(* a data row is written out when the filter accepts it.                   *)
(*   line    the lines read so far                                          *)
(*   result  the lines written to the output so far                         *)
(*   args    filter_expr and the locals header_lines, passed, total         *)
(*   row     the outcome of the last decoding of a data row, if any         *)
(*   expr    the outcome of the last parsing of the filter, if any          *)
(*   ret     what run_filter returned, once it has                          *)
(***************************************************************************)
\* The most lines the input has.
MaxLines == 4

StreamLines ==
    {<<"#", "#", "I", "N", "F", "O", "=", "<", "I", "D", "=", "D", "P", ",", "N", "u", "m", "b", "e", "r", "=", "1", ",", "T", "y", "p", "e", "=", "I", "n", "t", "e", "g", "e", "r", ",", "D", "e", "s", "c", "r", "i", "p", "t", "i", "o", "n", "=", "\"", "d", "\"", ">">>,
     <<"#", "C", "H", "R", "O", "M", TAB, "P", "O", "S">>,
     <<"c", TAB, "7", TAB, ".", TAB, "A", TAB, "G", TAB, "5", "0", TAB, "P", TAB, "D", "P", "=", "3">>,
     <<"c", TAB, "8", TAB, ".", TAB, "A", TAB, "G", TAB, "6", "0", TAB, "P", TAB, ".">>,
     <<"c", TAB, "7", TAB, ".", TAB, "A", TAB, "G", TAB, "5", TAB, "P", TAB, ".">>,
     <<"c", TAB, "7">>}

StreamFilterTexts ==
    {<<"Q", "U", "A", "L", " ", ">", " ", "3", "0">>,
     <<"Q", "U", "A", "L", " ", ">">>,
     <<"\"", "a", "\"", " ", "<", " ", "1">>}

HASH == <<"#">>
CHROM_LINE == <<"#", "C", "H", "R", "O", "M">>

NoHeaderError == Err("No VCF header found before data rows")
Unit == Ok("()")

\* writeln!(stdout_lock, "{}", line) with the lines in the wrong order
WrittenFirst(out, text) == <<text>> \o out

\* writeln!(stdout_lock, "{}", line)
Written(out, text) == Append(out, text)

\* The ? operator ignoring the error
TryContinue(outcome) == Idle

\* The ? operator on the result of eng.evaluate: an error ends run_filter.
Try(outcome) == IF outcome.ok THEN Idle ELSE Done(outcome)

StreamInit ==
    /\ engine = None
    /\ line = <<>>
    /\ result = <<>>
    /\ row = None
    /\ expr = None
    /\ args \in {[f |-> "run_filter", filter_expr |-> x, header_lines |-> <<>>,
                  passed |-> 0, total |-> 0] : x \in StreamFilterTexts}
    /\ ret = Idle

\* The header_lines after the push, and the engine after the line.
HeaderLine(text, header_lines) ==
    /\ line' = Append(line, text)
    /\ args' = [args EXCEPT !.header_lines = header_lines]
    /\ result' = Written(result, text)
    /\ engine' = IF StartsWith(text, CHROM_LINE)
                 THEN Some(parse_header(Join(header_lines, "\n")).v)
                 ELSE engine

\* A line that starts with '#'
StreamHeaderLine ==
    /\ ~ret.done
    /\ Len(line) < MaxLines
    /\ \E text \in StreamLines :
          /\ StartsWith(text, HASH)
          /\ HeaderLine(text, Append(args.header_lines, text))
    /\ UNCHANGED <<row, expr, ret>>

\* A data row with an engine: counted, handed to eng.evaluate, written out
\* when accepted.
DataRow(text, parsed_row, outcome) ==
    /\ line' = Append(line, text)
    /\ row' = Some(parsed_row)
    /\ expr' = IF parsed_row.ok
               THEN Some(FilterEngine_parse_filter(args.filter_expr))
               ELSE expr
    /\ args' = [args EXCEPT !.total = @ + 1,
                            !.passed = IF outcome = Ok(TRUE) THEN @ + 1 ELSE @]
    /\ result' = IF outcome = Ok(TRUE) THEN Written(result, text) ELSE result
    /\ ret' = Try(outcome)

\* A data row before the #CHROM line
NoHeader(text) ==
    /\ line' = Append(line, text)
    /\ ret' = Done(NoHeaderError)
    /\ UNCHANGED <<row, expr, args, result>>

\* A line that does not start with '#'
StreamDataRow ==
    /\ ~ret.done
    /\ Len(line) < MaxLines
    /\ \E text \in StreamLines :
          /\ ~StartsWith(text, HASH)
          /\ IF engine.some
             THEN DataRow(text, parse_row(text, engine.v),
                          FilterEngine_evaluate(engine.v, args.filter_expr, text))
             ELSE NoHeader(text)
    /\ UNCHANGED engine

\* The end of the input: the tally is printed and run_filter returns Ok(()).
StreamEnd ==
    /\ ~ret.done
    /\ ret' = Done(Unit)
    /\ UNCHANGED <<engine, line, row, expr, result, args>>

StreamNext == StreamHeaderLine \/ StreamDataRow \/ StreamEnd

StreamSpec == StreamInit /\ [][StreamNext]_vars

(***************************************************************************)
(* C14, C15, C16                                                           *)
(***************************************************************************)
IsHeaderLine(text) == StartsWith(text, HASH)
IsDataLine(text) == ~StartsWith(text, HASH)

\* The places of the #CHROM lines before place i of the input.
ChromBefore(i) == {j \in 1..(i - 1) : StartsWith(line[j], CHROM_LINE)}

Last(S) == CHOOSE j \in S : \A k \in S : k <= j

\* The engine in force when line i of the input is read: built from the
\* header lines up to the last #CHROM line before it.
EngineAt(i) ==
    IF ChromBefore(i) = {} THEN None
    ELSE Some(parse_header(
            Join(SelectSeq(Take(line, Last(ChromBefore(i))), IsHeaderLine), "\n")).v)

\* Line i is a data row that the filter accepts.
Accepts(i) ==
    /\ IsDataLine(line[i])
    /\ EngineAt(i).some
    /\ FilterEngine_evaluate(EngineAt(i).v, args.filter_expr, line[i]) = Ok(TRUE)

\* Line i is a data row that was handed to eng.evaluate.
Evaluates(i) == IsDataLine(line[i]) /\ EngineAt(i).some

Places == [i \in 1..Len(line) |-> i]
KeptPlaces == SelectSeq(Places, LAMBDA i : IsHeaderLine(line[i]) \/ Accepts(i))
ExpectedOutput == [k \in 1..Len(KeptPlaces) |-> line[KeptPlaces[k]]]

MalformedFilter == ~parse_filter(args.filter_expr).ok

\* C14 as claimed: with a malformed filter expression no data row is
\* decoded, counted or written out, and run_filter, when it returns,
\* returns an error, also on an input without data rows and on an input
\* whose first data row is malformed.
C14_MalformedFilterAbortsFirst ==
    MalformedFilter =>
        /\ row = None
        /\ args.total = 0
        /\ SelectSeq(result, IsDataLine) = <<>>
        /\ ret.done => ~ret.v.ok

\* C15: after every prefix of the input the data lines written out are the
\* data lines of the prefix that the filter accepted, each as it was read
\* and in input order, every # line of the prefix has been written out as
\* it was read, passed <= total, total is the number of data rows handed to
\* the evaluation and passed the number of data lines written out.
C15_OutputIsAcceptedLines ==
    /\ result = ExpectedOutput
    /\ SelectSeq(result, IsHeaderLine) = SelectSeq(line, IsHeaderLine)
    /\ args.passed <= args.total
    /\ args.total = Cardinality({i \in 1..Len(line) : Evaluates(i)})
    /\ args.passed = Len(SelectSeq(result, IsDataLine))
    /\ args.passed = Cardinality({i \in 1..Len(line) : Accepts(i)})

\* Two accepted rows in the order read, a rejected row between them.
C15_Witness ==
    /\ Len(line) = 4
    /\ StartsWith(line[1], CHROM_LINE)
    /\ Accepts(2) /\ ~Accepts(3) /\ Accepts(4)
    /\ line[2] # line[4]
    /\ result = <<line[1], line[2], line[4]>>
    /\ args.passed = 2 /\ args.total = 3

RowFailed == row.some /\ ~row.v.ok

\* C16 as claimed: a row that fails to decode does not end the run.
C16_RowFailureContinues == RowFailed => ~ret.done

\* C16: a row that fails to decode ends run_filter with that row's error:
\* the row is the last line read and is not written out. The failure
\* changes nothing in the engine, which still is the one built from the
\* header lines.
C16_RowFailureEndsRun ==
    RowFailed =>
        /\ ret = Done(row.v)
        /\ row.v = parse_row(line[Len(line)], engine.v)
        /\ row.v.err = "RowParseError"
        /\ result = ExpectedOutput
        /\ engine = EngineAt(Len(line))

\* An accepted row, then a row of two columns: the run ends there.
C16_Witness ==
    /\ RowFailed
    /\ Len(line) = 3
    /\ Accepts(2)
    /\ result = <<line[1], line[2]>>
    /\ ret = Done(ColumnCountError(2))

(***************************************************************************)
(* C26                                                                     *)
(***************************************************************************)
\* The Value (or the error) of the parsed expression on the decoded row.
ValueNow == evaluate(expr.v.v, row.v.v, engine.v)

BothParsed == row.some /\ row.v.ok /\ expr.some /\ expr.v.ok

\* C26: evaluate and evaluate_parsed return true exactly when the value of
\* the expression is Bool(true); a String, a Number, an Array, Missing or
\* Bool(false) at the top gives false, and an error of the evaluation is
\* returned as it is.
C26_AcceptsBoolTrueOnly ==
    BothParsed =>
        /\ result.some =>
              result.v = IF ValueNow.ok THEN Ok(ValueNow.v = VBool(TRUE)) ELSE ValueNow
        /\ ret.done =>
              ret.v = IF ValueNow.ok THEN Ok(ValueNow.v = VBool(TRUE)) ELSE ValueNow

\* DP on a row with DP=30: the value is Number(30), the row is rejected.
C26_Witness ==
    /\ BothParsed
    /\ args.filter = <<"D", "P">>
    /\ ValueNow = Ok(VNumber(300))
    /\ result = Some(Ok(FALSE))
    /\ ret = Done(Ok(FALSE))

\* !!DP and DP && true on that row: Bool(true), the row is accepted.
C26_WitnessNotNot ==
    /\ BothParsed
    /\ args.filter = <<"!", "!", "D", "P">>
    /\ Lookup(row.v.v.info, <<"D", "P">>) = VNumber(300)
    /\ result = Some(Ok(TRUE))
    /\ ret = Done(Ok(TRUE))

C26_WitnessAndTrue ==
    /\ BothParsed
    /\ args.filter = <<"D", "P", " ", "&", "&", " ", "t", "r", "u", "e">>
    /\ Lookup(row.v.v.info, <<"D", "P">>) = VNumber(300)
    /\ result = Some(Ok(TRUE))
    /\ ret = Done(Ok(TRUE))

\* ALT of two alleles is an Array and CHROM a String: rejected.
C26_WitnessArray ==
    /\ BothParsed
    /\ args.filter = <<"A", "L", "T">>
    /\ ValueNow.ok /\ ValueNow.v.k = "array"
    /\ result = Some(Ok(FALSE))

C26_WitnessString ==
    /\ BothParsed
    /\ args.filter = <<"C", "H", "R", "O", "M">>
    /\ ValueNow = Ok(VString(<<"c">>))
    /\ ret = Done(Ok(FALSE))

(***************************************************************************)
(* C27                                                                     *)
(***************************************************************************)
\* The access chains that hold a wildcard and a subfield name.
WildcardNamed == {access \in StructAccess : WildcardIn(access) /\ NamedLast(access)}

\* C27: FIELD or INFO.FIELD followed by a chain with a wildcard and a
\* subfield name resolves to an Array on every row, and exists of
\* FIELD[*].Sub or INFO.FIELD[*].Sub is true on every row; a path that has
\* the word INFO or FORMAT in front of the wildcard names no field and is
\* Missing.
C27_WildcardIsArray ==
    result.some =>
        /\ \A q \in BOOLEAN, f \in StructFields, access \in WildcardNamed :
              /\ expr.v = PathOf(q, f, access) =>
                    (result.v.ok /\ result.v.v.k = "array")
              /\ expr.v = EExists(PathOf(q, f, access).parts) =>
                    result.v = Ok(VBool(TRUE))
        /\ \A ns \in {N_INFO, N_FORMAT}, sub \in SubfieldNames :
              /\ expr.v = EVar(<<Field(ns), Wildcard, Field(sub)>>) =>
                    result.v = Ok(VMissing)
              /\ expr.v = EExists(<<Field(ns), Wildcard, Field(sub)>>) =>
                    result.v = Ok(VBool(FALSE))

\* exists(ZZ[*].G) on a row without ZZ and a header without ZZ.
C27_Witness ==
    /\ result.some
    /\ expr.v = EExists(<<Field(T_ZZ), Wildcard, Field(<<"G">>)>>)
    /\ ~Has(row.v.v.info, T_ZZ) /\ ~Has(engine.v, T_ZZ)
    /\ result.v = Ok(VBool(TRUE))
    /\ ret = Done(Ok(TRUE))

\* INFO.DP[*].G where DP is declared without schema: the empty Array.
C27_WitnessNoSchema ==
    /\ result.some
    /\ expr.v = EVar(<<Field(N_INFO), Field(T_DP), Wildcard, Field(<<"G">>)>>)
    /\ Has(engine.v, T_DP) /\ ~HasSchema(T_DP)
    /\ Has(row.v.v.info, T_DP)
    /\ result.v = Ok(VArray(<<>>))

\* exists(AN[*].Z) where the schema of AN has no Z.
C27_WitnessNoName ==
    /\ result.some
    /\ expr.v = EExists(<<Field(T_AN), Wildcard, Field(<<"Z">>)>>)
    /\ HasSchema(T_AN) /\ SchemaPlace(T_AN, <<"Z">>) = 0
    /\ Len(Instances(T_AN)) = 2
    /\ result.v = Ok(VBool(TRUE))

(***************************************************************************)
(* C29                                                                     *)
(***************************************************************************)
\* The elements of the ALT or the FILTER column of the decoded row.
ElementsOf(f) == IF f = N_ALT THEN row.v.v.alt_alleles ELSE row.v.v.filter

\* C29: ALT[i] and FILTER[i] on a column of two or more elements are the
\* element at index i as a String, Missing when i is out of range; on a
\* column of exactly one element, which get returns as a bare String, they
\* are Missing for every i, ALT[0] included.
C29_IndexByElementCount ==
    result.some =>
        \A f \in {N_ALT, N_FILTER}, i \in AccessIndexes :
            expr.v = EVar(<<Field(f), Index(i)>>) =>
                /\ Len(ElementsOf(f)) >= 2 =>
                      result.v = Ok(IF i < Len(ElementsOf(f))
                                    THEN VString(ElementsOf(f)[i + 1])
                                    ELSE VMissing)
                /\ Len(ElementsOf(f)) = 1 =>
                      /\ result.v = Ok(VMissing)
                      /\ get(row.v.v, f) = VString(ElementsOf(f)[1])

\* ALT[0] on ALT = G: Missing.
C29_Witness ==
    /\ result.some
    /\ expr.v = EVar(<<Field(N_ALT), Index(0)>>)
    /\ row.v.v.alt_alleles = <<<<"G">>>>
    /\ result.v = Ok(VMissing)

\* ALT[2] on ALT = G,T,C and FILTER[1] on FILTER = P;q: the elements.
C29_WitnessElement ==
    /\ result.some
    /\ expr.v = EVar(<<Field(N_ALT), Index(2)>>)
    /\ row.v.v.alt_alleles = <<<<"G">>, <<"T">>, <<"C">>>>
    /\ result.v = Ok(VString(<<"C">>))

C29_WitnessFilter ==
    /\ result.some
    /\ expr.v = EVar(<<Field(N_FILTER), Index(1)>>)
    /\ row.v.v.filter = <<<<"P">>, <<"q">>>>
    /\ result.v = Ok(VString(<<"q">>))

\* FILTER[0] on FILTER = P, and FILTER[2] on FILTER = P;q: Missing.
C29_WitnessFilterOne ==
    /\ result.some
    /\ expr.v = EVar(<<Field(N_FILTER), Index(0)>>)
    /\ row.v.v.filter = <<<<"P">>>>
    /\ result.v = Ok(VMissing)

C29_WitnessOutOfRange ==
    /\ result.some
    /\ expr.v = EVar(<<Field(N_FILTER), Index(2)>>)
    /\ row.v.v.filter = <<<<"P">>, <<"q">>>>
    /\ result.v = Ok(VMissing)

(***************************************************************************)
(* C25                                                                     *)
(***************************************************************************)
ChromPlaces == {j \in 1..Len(line) : StartsWith(line[j], CHROM_LINE)}

First(S) == CHOOSE j \in S : \A k \in S : j <= k

\* The metadata built once, at the first #CHROM line, from the header lines
\* up to it.
EngineOnce ==
    IF ChromPlaces = {} THEN None
    ELSE Some(parse_header(
            Join(SelectSeq(Take(line, First(ChromPlaces)), IsHeaderLine), "\n")).v)

\* C25 as claimed: the metadata of the run is the one built at the #CHROM
\* line from the header lines read up to it, and is not built again; a data
\* row read before a #CHROM line ends the run with an error and is neither
\* evaluated nor written out.
C25_MetadataBuiltOnce ==
    /\ engine = EngineOnce
    /\ \A i \in 1..Len(line) :
          (IsDataLine(line[i]) /\ ChromBefore(i) = {}) =>
              /\ i = Len(line)
              /\ ret = Done(NoHeaderError)
              /\ row = None /\ args.total = 0
              /\ SelectSeq(result, IsDataLine) = <<>>

(***************************************************************************)
(* ResolverSpec: parse_header on header texts of a few lines, each line    *)
(* put together from a prefix, a list of attributes and a suffix.          *)
(***************************************************************************)
\* The most lines a header text has.
MaxHeaderLines == 2

AttrNames == {K_ID, K_Number, K_Type}

T_Y == <<"Y">>

DeclPrefixes == {InfoPrefix, <<"#", "#", "I", "N", "F", "O", "=">>}
DeclSuffixes == {<<">">>, <<>>}

\* The lines: every prefix, set of attributes and suffix for the ID X; a
\* full declaration of Y; a full declaration of X between blanks; the
\* #CHROM line; the empty line.
DeclLines ==
    {[pre |-> p, attrs |-> a, id |-> T_X, suf |-> s, pad |-> <<>>] :
        p \in DeclPrefixes, a \in SUBSET AttrNames, s \in DeclSuffixes}
        \cup {[pre |-> InfoPrefix, attrs |-> AttrNames, id |-> T_Y,
               suf |-> <<">">>, pad |-> <<>>],
              [pre |-> InfoPrefix, attrs |-> AttrNames, id |-> T_X,
               suf |-> <<">">>, pad |-> <<" ">>],
              [pre |-> CHROM_LINE, attrs |-> {}, id |-> T_X, suf |-> <<>>,
               pad |-> <<>>],
              [pre |-> <<>>, attrs |-> {}, id |-> T_X, suf |-> <<>>, pad |-> <<>>]}

\* ID=.., Number=1, Type=Integer, Description="d": those of the set, in
\* this order, with commas between them.
AttrTexts(l) ==
    (IF K_ID \in l.attrs THEN <<K_ID \o <<"=">> \o l.id>> ELSE <<>>)
        \o (IF K_Number \in l.attrs THEN <<K_Number \o <<"=", "1">>>> ELSE <<>>)
        \o (IF K_Type \in l.attrs
            THEN <<K_Type \o <<"=", "I", "n", "t", "e", "g", "e", "r">>>> ELSE <<>>)
        \o <<K_Description \o <<"=", "\"", "d", "\"">>>>

LineText(l) == l.pad \o l.pre \o Join(AttrTexts(l), ",") \o l.suf \o l.pad

RECURSIVE LineTexts(_)
LineTexts(ls) == IF ls = <<>> THEN <<>> ELSE <<LineText(Head(ls))>> \o LineTexts(Tail(ls))

HeaderOf(ls) == Join(LineTexts(ls), "\n")

ResolverInit ==
    /\ NoEngine
    /\ args \in {[f |-> "parse_header", lines |-> ls] :
                    ls \in SeqsUpTo(DeclLines, MaxHeaderLines)}
    /\ ret = Idle

ResolverParse ==
    /\ ~ret.done
    /\ ret' = Done(parse_header(HeaderOf(args.lines)))
    /\ UNCHANGED args
    /\ EngineUnchanged

ResolverNext == ResolverParse

ResolverSpec == ResolverInit /\ [][ResolverNext]_vars

(***************************************************************************)
(* C22                                                                     *)
(***************************************************************************)
\* The line has the shape of a declaration and the three attributes.
FullDeclaration(l) ==
    /\ l.pre = InfoPrefix
    /\ l.suf = <<">">>
    /\ AttrNames \subseteq l.attrs

DeclaredIds == {args.lines[i].id : i \in {j \in 1..Len(args.lines) :
                                            FullDeclaration(args.lines[j])}}

\* C22: resolving a header text returns no error; a line without the
\* prefix ##INFO=< or the suffix >, or without ID, Number or Type, gives no
\* entry, every other declaration line gives an entry under its ID, and a
\* text without lines or without declarations gives the empty map.
C22_ResolverSkipsSilently ==
    ret.done =>
        /\ ret.v.ok
        /\ DOMAIN ret.v.v = DeclaredIds
        /\ \A id \in DeclaredIds : ret.v.v[id].id = id
        /\ (args.lines = <<>>) => ret.v.v = EmptyMap

\* A declaration without Type, then a full declaration of Y: one entry.
C22_Witness ==
    /\ ret.done
    /\ Len(args.lines) = 2
    /\ args.lines[1].pre = InfoPrefix /\ args.lines[1].suf = <<">">>
    /\ args.lines[1].attrs = {K_ID, K_Number}
    /\ FullDeclaration(args.lines[2]) /\ args.lines[2].id = T_Y
    /\ ret.v.ok
    /\ DOMAIN ret.v.v = {T_Y}

\* The text without lines
C22_WitnessEmpty ==
    /\ ret.done
    /\ args.lines = <<>>
    /\ ret.v = Ok(EmptyMap)

(***************************************************************************)
(* RepeatSpec: one engine decodes row texts and evaluates expressions over *)
(* and over; args keeps what each text was decoded to and what each        *)
(* expression gave on each text the first time.                            *)
(***************************************************************************)
RepeatRowTexts ==
    {<<"c", TAB, "7", TAB, ".", TAB, "A", TAB, "G", TAB, "5", "0", TAB, "P", TAB, "D", "P", "=", "3">>,
     <<"c", TAB, "7", TAB, ".", TAB, "A", TAB, "G", TAB, "5", TAB, "P", TAB, ".">>,
     <<"c", TAB, "x", TAB, ".", TAB, "A", TAB, "G", TAB, "5", TAB, "P", TAB, ".">>}

RepeatFilterTexts ==
    {<<"Q", "U", "A", "L", " ", ">", " ", "3", "0">>,
     <<"\"", "a", "\"", " ", "<", " ", "1">>,
     <<"D", "P">>}

RepeatExprs == {parse_filter(f).v : f \in RepeatFilterTexts}

RepeatInit ==
    /\ engine \in {Some(parse_header(h).v) : h \in HeaderTexts}
    /\ line = <<>>
    /\ row = None
    /\ expr = None
    /\ result = None
    /\ args = [f |-> "FilterEngine", decoded |-> EmptyMap, values |-> EmptyMap,
               again |-> {}]
    /\ ret = Idle

\* What a call is remembered as: its first outcome stays
Remembered(m, key, outcome) == IF Has(m, key) THEN m ELSE Insert(m, key, outcome)

\* A decoder that keeps the INFO entries of the record it made before
RepeatParseRowCarrying ==
    /\ \E text \in RepeatRowTexts :
          LET r == parse_row(text, engine.v)
              carried == IF row.some /\ row.v.ok /\ r.ok
                         THEN Ok([r.v EXCEPT !.info = r.v.info @@ row.v.v.info])
                         ELSE r
          IN  /\ line' = text
              /\ row' = Some(carried)
              /\ args' = [args EXCEPT !.f = "parse_row",
                              !.decoded = Remembered(@, text, carried),
                              !.again = IF Has(args.decoded, text)
                                        THEN @ \cup {"parse_row"} ELSE @]
    /\ UNCHANGED <<engine, expr, result, ret>>

\* parse_row(line, &info_map)
RepeatParseRow ==
    /\ \E text \in RepeatRowTexts :
          LET r == parse_row(text, engine.v)
          IN  /\ line' = text
              /\ row' = Some(r)
              /\ args' = [args EXCEPT !.f = "parse_row",
                              !.decoded = Remembered(@, text, r),
                              !.again = IF Has(args.decoded, text)
                                        THEN @ \cup {"parse_row"} ELSE @]
    /\ UNCHANGED <<engine, expr, result, ret>>

\* evaluate(&expr, &row, &info_map)
RepeatEvaluate ==
    /\ row.some /\ row.v.ok
    /\ \E e \in RepeatExprs :
          LET val == evaluate(e, row.v.v, engine.v)
          IN  /\ expr' = Some(e)
              /\ result' = Some(val)
              /\ args' = [args EXCEPT !.f = "evaluate",
                              !.values = Remembered(@, <<line, e>>, val),
                              !.again = IF Has(args.values, <<line, e>>)
                                        THEN @ \cup {"evaluate"} ELSE @]
    /\ UNCHANGED <<engine, line, row, ret>>

RepeatNext == RepeatParseRow \/ RepeatEvaluate

RepeatSpec == RepeatInit /\ [][RepeatNext]_vars

(***************************************************************************)
(* C24                                                                     *)
(***************************************************************************)
\* The text was decoded before: the record (or the error) is the same.
DecodedAgain ==
    (args'.f = "parse_row" /\ args' # args /\ Has(args.decoded, line')) =>
        row'.v = args.decoded[line']

\* The expression was evaluated on this row before: the value (or the
\* error) is the same.
EvaluatedAgain ==
    (result' # result \/ expr' # expr) =>
        /\ Has(args.values, <<line, expr'.v>>) =>
              result'.v = args.values[<<line, expr'.v>>]
        /\ expr'.v \in RepeatExprs
        /\ row' = row

C24_WitnessError ==
    /\ "evaluate" \in args.again
    /\ result.some /\ ~result.v.ok
    /\ result.v = args.values[<<line, expr.v>>]

====
